---- MODULE Spec2Model ----
(***************************************************************************)
(* Context Engine: the confidence-gated analysis (ContextAnalyzer.         *)
(* analyze_email / analyze_batch), the Context validators and the context  *)
(* merge (ContextAnalyzer.update_context).                                 *)
(* Response Generator: the templates (ResponseTemplate, TemplateManager.   *)
(* create_template / track_template_usage, template versions) and          *)
(* ResponseGenerator.validate_response.                                    *)
(*                                                                         *)
(* Conventions of the model                                                *)
(*  - scores (confidence, relevance, interaction frequency, sentiment) are *)
(*    integers in hundredths: 75 stands for 0.75, 100 for 1.0;             *)
(*  - timestamps are small naturals, Now is the instant datetime.utcnow()  *)
(*    returns while a validator runs;                                      *)
(*  - topic and key-term strings are naturals (an index of the string);    *)
(*  - ProjectContext and RelationshipContext instances live in two heaps   *)
(*    (pobj, robj) and a Context holds their addresses, because Python     *)
(*    lists hold references and update_context assigns to the fields of    *)
(*    the instances it finds in its inputs;                                *)
(*  - the Redis store of the template manager is four maps (templates,     *)
(*    version histories, category sets, analytics hashes); a success rate  *)
(*    is an exact fraction <<numerator, denominator>>.                     *)
(***************************************************************************)
EXTENDS Integers, Sequences, FiniteSets, TLC

----------------------------------------------------------------------------
\* Program constants

MAX_RETRIES == 3

MIN_CONFIDENCE_THRESHOLD == 75

BATCH_SIZE == 32

MAX_TOPICS == 10

MIN_CONFIDENCE_SCORE == 0

MAX_CONFIDENCE_SCORE == 100

REQUIRED_METADATA_FIELDS == <<"source", "version", "timestamp">>

\* asyncio.sleep(1): the delay of the except branch, in seconds
RETRY_DELAY == 1

\* the only request deadline the service configures (settings.REQUEST_TIMEOUT)
MAX_REQUEST_TIMEOUT == 30

\* template_manager.MAX_TEMPLATE_SIZE, in characters
MAX_TEMPLATE_SIZE == 50000

\* template_manager.MIN_CONFIDENCE_SCORE (0.75), the default of config['min_confidence']
TEMPLATE_MIN_CONFIDENCE_SCORE == 75

\* the least len(content) ResponseTemplate._validate_format passes
MIN_TEMPLATE_LENGTH == 50

\* generator.MIN_CONFIDENCE_THRESHOLD (0.7), the default of config["min_confidence"]
GENERATOR_MIN_CONFIDENCE_THRESHOLD == 70

\* the least len(content) the length check of Response.validate_content passes
MIN_RESPONSE_LENGTH == 10

\* api/routes.py: CONFIDENCE_THRESHOLD = 0.95, the threshold of the route handlers
ROUTES_CONFIDENCE_THRESHOLD == 95

\* services/nlp_processor.py: CONFIDENCE_THRESHOLD = 0.95, the processor's threshold
NLP_CONFIDENCE_THRESHOLD == 95

\* services/nlp_processor.py: CACHE_TTL = 3600 seconds, one unit of the clock
NLP_CACHE_TTL == 1

\* utils/text_processor.py: the capacity of the TextAnalyzer's result cache
CACHE_MAX_SIZE == 1000

----------------------------------------------------------------------------
\* Bounds of the model

\* number of emails in a batch
MaxBatch == 2

\* seconds one call of the extractor takes
CallSeconds == 15

\* timestamps range over 0..MaxTime; MaxTime itself lies in the future
MaxTime == 3

\* length of the project and relationship lists of a Context given to update_context
MaxList == 2

\* number of update_context calls a caller makes one after the other
MaxCalls == 2

\* number of versions a template gets
MaxVersions == 3

\* number of track_template_usage calls
MaxUsage == 3

\* number of requests the route handlers answer
MaxRequests == 2

\* the clock runs from 0 to MaxClock
MaxClock == 1

\* number of TextAnalyzer calls made on a cache
MaxCacheCalls == 3

\* update_learning_metrics calls on one Response
MaxUpdates == 2

----------------------------------------------------------------------------
\* Generic helpers

\* Python's None, where a Context is expected
None == [none |-> TRUE]

\* no exception, where update_context's exception is expected
NoError == [type |-> "none", message |-> "", cause |-> "none"]

\* no validate call has been made
NoVerdict == [on |-> "none"]

\* update_learning_metrics has not been called
NoUpdate == [n |-> 0]

Range(s) == {s[k] : k \in DOMAIN s}

Max(a, b) == IF a >= b THEN a ELSE b

Min(a, b) == IF a <= b THEN a ELSE b

RECURSIVE SetToSeq(_)
\* list(set(...)): the elements once each; the order Python gives is the
\* hash order, here the ascending one
SetToSeq(S) ==
    IF S = {} THEN <<>>
    ELSE LET m == CHOOSE x \in S : \A y \in S : x <= y
         IN  <<m>> \o SetToSeq(S \ {m})

\* mutant of FirstError: every check runs and the last failure is reported
FirstError_Last(rs) ==
    IF \A k \in DOMAIN rs : rs[k] = "ok" THEN "ok"
    ELSE rs[CHOOSE k \in DOMAIN rs :
                /\ rs[k] # "ok"
                /\ \A j \in DOMAIN rs : j > k => rs[j] = "ok"]

\* the first entry of a sequence of validation outcomes that is not "ok"
FirstError(rs) ==
    IF \A k \in DOMAIN rs : rs[k] = "ok" THEN "ok"
    ELSE rs[CHOOSE k \in DOMAIN rs :
                /\ rs[k] # "ok"
                /\ \A j \in DOMAIN rs : j < k => rs[j] = "ok"]

----------------------------------------------------------------------------
\* models/context.py: the validators

\* datetime.utcnow() at validation time
Now == MaxTime - 1

\* strings uuid.UUID(...) accepts
WellFormedUUIDs == {"ctx-1", "ctx-2", "mail-1", "mail-2", "p1", "p2", "r1", "r2"}

\* uuid.UUID(s, version=4) raises ValueError on a malformed string
IsUUID(s) == s \in WellFormedUUIDs

\* the message of the ValueError uuid.UUID raises
ErrUUID == "badly formed hexadecimal UUID string"

\* the message Context.validate raises for a missing metadata field
ErrMetadata ==
    [source    |-> "Required metadata field source missing",
     version   |-> "Required metadata field version missing",
     timestamp |-> "Required metadata field timestamp missing"]

\* EMAIL_REGEX.match(address)
EmailMatches(address) == address \in {"ann@corp.io", "bob@corp.io"}

\* ProjectContext.validate: "ok" for True, else the ValueError it raises
\* (last_updated is Optional: << >> for None, <<t>> for a timestamp)
ProjectValidate(p) ==
    IF p.project_id = ""
        THEN "Invalid project_id format"
    ELSE IF ~IsUUID(p.project_id)
        THEN ErrUUID
    ELSE IF p.project_name = ""
        THEN "Project name cannot be empty"
    ELSE IF Len(p.key_terms) = 0
        THEN "At least one key term is required"
    ELSE IF Len(p.last_updated) > 0 /\ p.last_updated[1] > Now
        THEN "Last updated timestamp cannot be in the future"
    ELSE "ok"

\* RelationshipContext.validate
RelationshipValidate(r) ==
    IF ~EmailMatches(r.email_address)
        THEN "Invalid email address format"
    ELSE IF r.interaction_frequency < 0 \/ r.interaction_frequency > 100
        THEN "Interaction frequency must be between 0 and 1"
    ELSE IF r.last_interaction > Now
        THEN "Last interaction cannot be in the future"
    ELSE IF \E m \in DOMAIN r.sentiment_metrics :
                r.sentiment_metrics[m] < -100 \/ r.sentiment_metrics[m] > 100
        THEN "Invalid sentiment value for metric"
    ELSE "ok"

\* the first required metadata field the mapping lacks
FirstMissingField(md) ==
    REQUIRED_METADATA_FIELDS[
        CHOOSE k \in DOMAIN REQUIRED_METADATA_FIELDS :
            /\ REQUIRED_METADATA_FIELDS[k] \notin DOMAIN md
            /\ \A j \in 1..(k - 1) : REQUIRED_METADATA_FIELDS[j] \in DOMAIN md]

\* the statements of Context.validate in the order of the source, each with
\* what it raises ("ok" when it raises nothing): the two identifiers, the
\* topics, the metadata, the projects, the relationships, the timestamp
ContextRules(c, P, R) ==
    << IF ~IsUUID(c.context_id) THEN ErrUUID ELSE "ok",
       IF ~IsUUID(c.email_id) THEN ErrUUID ELSE "ok",
       IF Len(c.topics) > MAX_TOPICS THEN "Maximum of 10 topics allowed" ELSE "ok",
       IF \E k \in DOMAIN REQUIRED_METADATA_FIELDS :
              REQUIRED_METADATA_FIELDS[k] \notin DOMAIN c.metadata
          THEN ErrMetadata[FirstMissingField(c.metadata)] ELSE "ok",
       FirstError([k \in DOMAIN c.project_contexts |->
                      ProjectValidate(P[c.project_contexts[k]])]),
       FirstError([k \in DOMAIN c.relationship_contexts |->
                      RelationshipValidate(R[c.relationship_contexts[k]])]),
       IF c.analyzed_at > Now
          THEN "Analysis timestamp cannot be in the future" ELSE "ok" >>

\* Context.validate, with the heaps the nested instances live in: the
\* statements run in order and the first that raises ends the call
ContextValidate(c, P, R) == FirstError(ContextRules(c, P, R))

----------------------------------------------------------------------------
\* State

VARIABLES
    email_batch,    \* analyze_batch's argument: a list of (email_id, content, thread_id)
    batch_pc,       \* "idle" (no call), "called", "running", "returned", "raised"
    slice,          \* analyze_batch's loop variable i, the start of the current slice
    results,        \* analyze_batch's local list results, its return value
    failure_log,    \* what analyze_batch's logger.error calls recorded: (email_id, reason)
    pc,             \* per task of analyze_email: "new", "call", "sleeping", "returned", "raised"
    retry_count,    \* per task: the local retry_count
    context,        \* per task: the local context (None until first assigned)
    result,         \* per task: the Context analyze_email returned (None otherwise)
    error,          \* per task: the exception analyze_email raised ("none" otherwise)
    calls,          \* per task: calls of process_email_content made so far
    slept,          \* per task: asyncio.sleep(1) delays completed so far
    outcomes,       \* per task: how each attempt ended: "low", "error" or "accepted"
    raised_from,    \* per task: the exception last caught, and what the raised one carries
    pobj,           \* heap of ProjectContext instances, by address
    robj,           \* heap of RelationshipContext instances, by address
    existing_context,  \* update_context's first argument (a Context)
    new_context,       \* update_context's second argument (a Context)
    merge_pc,          \* "idle" (no call), "called", "returned", "raised"
    merged,            \* the Context update_context returned (None otherwise)
    merge_error,       \* the exception update_context raised (NoError otherwise)
    pobj0,             \* the ProjectContext heap when update_context was called
    robj0,             \* the RelationshipContext heap when update_context was called
    history,           \* the calls of update_context that ended, oldest first
    subject,           \* the Context a caller validates (None otherwise)
    verdict,           \* what the validate call gave (NoVerdict before it)
    redis_templates,   \* the store's "template:<id>" keys: template_id -> stored template
    redis_versions,    \* the version history kept for each template_id, oldest first
    redis_categories,  \* the store's "category:<name>" sets of template ids
    redis_analytics,   \* the store's "analytics:<id>" hashes: template_id -> fields
    template_call,     \* the last create_template / validate_template / version call
    usage_pc,          \* per track_template_usage call: the store operation it is at
    usage_local,       \* per track_template_usage call: its arguments and locals
    response,          \* validate_response's argument (None: no Response object)
    validation,        \* what validate_response gave (NoVerdict before it)
    metrics_call,      \* the latest update_learning_metrics call on response: its
                       \* number, its argument and what it returned
    operands,          \* the field values of three Contexts a, b, c to be merged
    combined,          \* the merged field values computed so far, by grouping
    http_log,          \* the requests the route handlers answered, oldest first: route and reply
    nlp_cache,         \* NLPProcessor._cache: content -> the time its embedding was cached
    clock,             \* time.time(), in units of CACHE_TTL
    processed,         \* per task: what each call of process_email_content gave, oldest first
    text_cache,        \* TextAnalyzer._cache: the keys of the OrderedDict, oldest insertion first
    cache_calls        \* the TextAnalyzer calls made so far: cache key, and whether cached

analyzer_vars ==
    <<email_batch, batch_pc, slice, results, failure_log, pc, retry_count,
      context, result, error, calls, slept, outcomes, raised_from>>

heap_vars == <<pobj, robj>>

merge_vars ==
    <<existing_context, new_context, merge_pc, merged, merge_error, pobj0, robj0,
      history>>

validate_vars == <<subject, verdict>>

store_vars == <<redis_templates, redis_versions, redis_categories, redis_analytics>>

usage_vars == <<usage_pc, usage_local>>

response_vars == <<response, validation, metrics_call>>

generator_vars == <<store_vars, template_call, usage_vars, response_vars>>

combine_vars == <<operands, combined>>

route_vars == <<http_log>>

processor_vars == <<nlp_cache, clock, processed>>

cache_vars == <<text_cache, cache_calls>>

service_vars == <<combine_vars, route_vars, processor_vars, cache_vars>>

vars ==
    <<analyzer_vars, heap_vars, merge_vars, validate_vars, generator_vars,
      service_vars>>

----------------------------------------------------------------------------
\* The NLP processor as analyze_email sees it.  The processor is a
\* collaborator of the analyzer (self._nlp_processor; the unit tests replace
\* it): a call of process_email_content raises or returns a dictionary with a
\* confidence_score, and extract_semantic_context raises or returns a Context
\* whose email_id and thread_id are still empty.

\* What a call of process_email_content gives: an exception, or a dictionary
\* with a confidence_score and a shape, which is what the dictionary leads
\* extract_semantic_context to do: "nlp" is the Context the method of
\* nlp_processor.py builds; "sales" and "verbose" are Contexts a processor put
\* in its place returns (the latter with MAX_TOPICS + 1 topics); "no_analysis"
\* has no 'semantic_analysis' key.  The scores lie on both sides of the
\* threshold and of the valid range.
ExtractorOutcomes ==
    {[kind |-> "raise"]} \cup
    {[kind |-> "content", confidence_score |-> c, shape |-> "sales"] :
        c \in {0, 74, 75, 96, 120}} \cup
    {[kind |-> "content", confidence_score |-> 96, shape |-> s] :
        s \in {"nlp", "verbose", "no_analysis"}}

\* the address of the j-th nested instance built for task i
TaskOid(i, j) == <<i, j>>

\* f with address a (re)bound to value v
Store(f, a, v) == [x \in (DOMAIN f) \cup {a} |-> IF x = a THEN v ELSE f[x]]

\* pydantic's check of Context.confidence_score when a Context is constructed
ConfidenceInRange(c) == MIN_CONFIDENCE_SCORE <= c /\ c <= MAX_CONFIDENCE_SCORE

\* the metadata extract_semantic_context gives the Context it builds
SemanticMetadata ==
    [source |-> "nlp_processor", version |-> "1.0.0", model |-> "MODEL_NAME",
     device |-> "DEVICE"]

\* the Context extract_semantic_context builds for task i from a dictionary
\* with one topic and one relation above the threshold: the identifiers are
\* str(hash(...)), decimal numbers and no UUIDs, the email address is empty
SemanticContext(i, o, P, R) ==
    [raised |-> FALSE,
     ctx |-> [context_id |-> "hash-timestamp", email_id |-> "", thread_id |-> "",
              project_contexts |-> <<TaskOid(i, 1)>>,
              relationship_contexts |-> <<TaskOid(i, 1)>>,
              topics |-> <<1>>,
              confidence_score |-> o.confidence_score,
              analyzed_at |-> Now,
              metadata |-> SemanticMetadata],
     P |-> Store(P, TaskOid(i, 1),
                 [project_id |-> "hash-topic", project_name |-> "sales",
                  status |-> "ACTIVE", relevance_score |-> 96,
                  key_terms |-> <<1>>, last_updated |-> << >>]),
     R |-> Store(R, TaskOid(i, 1),
                 [person_id |-> "hash-source", email_address |-> "",
                  interaction_frequency |-> 96, last_interaction |-> Now,
                  sentiment_metrics |-> [confidence |-> 96, importance |-> 50]])]

\* extract_semantic_context(processed_content) called by task i:
\* [raised |-> TRUE], or the Context built and the heaps holding its instances
ExtractSemanticContext(i, o, P, R) ==
    IF o.shape \in {"no_analysis", "unhashable"} \/ ~ConfidenceInRange(o.confidence_score)
        THEN [raised |-> TRUE]
    ELSE IF o.shape = "nlp"
        THEN SemanticContext(i, o, P, R)
    ELSE IF o.shape = "sales"
        THEN [raised |-> FALSE,
              ctx |-> [context_id |-> "ctx-1", email_id |-> "", thread_id |-> "",
                       project_contexts |-> <<TaskOid(i, 1)>>,
                       relationship_contexts |-> <<TaskOid(i, 1)>>,
                       topics |-> <<1, 2>>,
                       confidence_score |-> o.confidence_score,
                       analyzed_at |-> Now,
                       metadata |-> [source |-> "nlp_processor", version |-> "1.0.0",
                                     timestamp |-> "t"]],
              P |-> Store(P, TaskOid(i, 1),
                          [project_id |-> "p1", project_name |-> "sales",
                           status |-> "ACTIVE", relevance_score |-> 96,
                           key_terms |-> <<1>>, last_updated |-> << >>]),
              R |-> Store(R, TaskOid(i, 1),
                          [person_id |-> "r1", email_address |-> "ann@corp.io",
                           interaction_frequency |-> 96, last_interaction |-> Now,
                           sentiment_metrics |-> [confidence |-> 96]])]
    ELSE [raised |-> FALSE,
          ctx |-> [context_id |-> "ctx-2", email_id |-> "", thread_id |-> "",
                   project_contexts |-> <<>>, relationship_contexts |-> <<>>,
                   topics |-> [k \in 1..(MAX_TOPICS + 1) |-> k],
                   confidence_score |-> o.confidence_score,
                   analyzed_at |-> Now,
                   metadata |-> [source |-> "nlp_processor", version |-> "1.0.0",
                                 timestamp |-> "t"]],
          P |-> P, R |-> R]

----------------------------------------------------------------------------
\* services/analyzer.py: analyze_email

\* if not all([email_id, content, thread_id])
InputsProvided(item) ==
    item.email_id # "" /\ item.content # "" /\ item.thread_id # ""

\* mutant of RetryBudgetLeft: the loop condition off by one
RetryBudgetLeft_OffByOne(rc) == rc <= MAX_RETRIES

\* while retry_count < MAX_RETRIES
RetryBudgetLeft(rc) == rc < MAX_RETRIES

\* mutant of LowConfidence: the score compared with the wrong constant
LowConfidence_WrongConstant(o) == o.confidence_score < MIN_CONFIDENCE_SCORE

\* if processed_content['confidence_score'] < MIN_CONFIDENCE_THRESHOLD
LowConfidence(o) == o.confidence_score < MIN_CONFIDENCE_THRESHOLD

\* if retry_count == MAX_RETRIES (in the except branch)
BudgetExhausted(rc) == rc = MAX_RETRIES

ErrAfterAttempts == "RuntimeError: Failed to analyze email after 3 attempts"

ErrConfidence == "RuntimeError: Failed to achieve minimum confidence threshold in analysis"

ErrInputs == "ValueError: All input parameters must be provided"

\* the Context of the attempt with email_id and thread_id filled in by the caller
WithEmail(ctx, item) ==
    [ctx EXCEPT !.email_id = item.email_id, !.thread_id = item.thread_id]

\* the emails of the slice asyncio.gather is running: batch_slice
InSlice(i) == slice < i /\ i <= slice + BATCH_SIZE /\ i <= Len(email_batch)

\* the coroutine of task i starts running: the input check before the loop
StartTask(i) ==
    /\ batch_pc = "running"
    /\ InSlice(i)
    /\ pc[i] = "new"
    /\ IF InputsProvided(email_batch[i])
          THEN /\ pc' = [pc EXCEPT ![i] = "call"]
               /\ error' = error
          ELSE /\ pc' = [pc EXCEPT ![i] = "raised"]
               /\ error' = [error EXCEPT ![i] = ErrInputs]
    /\ retry_count' = [retry_count EXCEPT ![i] = 0]
    /\ UNCHANGED <<email_batch, batch_pc, slice, results, failure_log, context,
                   result, calls, slept, outcomes, raised_from, heap_vars, merge_vars,
                   validate_vars,
                   generator_vars, service_vars>>

\* mutant of ExceptBranch: an attempt that raised is retried without being counted
ExceptBranch_NotCounted(rc) ==
    [retry_count |-> rc, pc |-> "sleeping", error |-> "none"]

\* the except branch of the loop body, entered with the count before the increment:
\* the count, the task's next pc and the error it raises
ExceptBranch(rc) ==
    IF BudgetExhausted(rc + 1)
        THEN [retry_count |-> rc + 1, pc |-> "raised", error |-> ErrAfterAttempts]
        ELSE [retry_count |-> rc + 1, pc |-> "sleeping", error |-> "none"]

\* mutant of LowBranch: continue without counting the attempt
LowBranch_NotCounted(rc) ==
    [retry_count |-> rc, pc |-> "call", error |-> "none"]

\* the low-confidence branch, entered with the count before the increment: continue,
\* then the loop condition, then either the next call or the raise after the loop
LowBranch(rc) ==
    IF RetryBudgetLeft(rc + 1)
        THEN [retry_count |-> rc + 1, pc |-> "call", error |-> "none"]
        ELSE [retry_count |-> rc + 1, pc |-> "raised", error |-> ErrConfidence]

\* no exception caught so far, and nothing attached to the exception raised
NothingCaught == [caught |-> "none", cause |-> "none", context |-> "none"]

ErrProcessor == "Exception raised by process_email_content"

ErrMissingAnalysis == "ValueError: Missing semantic analysis in processed content"

ErrConfidenceField == "ValidationError: confidence_score"

\* processed_content['confidence_score'] on a dictionary without that key
ErrNoConfidenceKey == "KeyError: 'confidence_score'"

\* hash(text) in extract_entities when text is the list main_topics
ErrUnhashable == "TypeError: unhashable type: 'list'"

\* the exception e the except branch catches in an attempt that ended with an
\* error: raised by process_email_content, by extract_semantic_context (the
\* missing key, or pydantic's check of the Context it constructs) or by
\* context.validate()
CaughtException(o, raised, validated) ==
    IF o.kind = "raise" THEN ErrProcessor
    ELSE IF o.kind = "cache_hit" THEN ErrNoConfidenceKey
    ELSE IF raised
        THEN (IF o.shape = "no_analysis" THEN ErrMissingAnalysis
              ELSE IF o.shape = "unhashable" THEN ErrUnhashable
              ELSE ErrConfidenceField)
    ELSE validated

\* what the attempt leaves of exceptions: the one caught last, and the
\* __cause__ and __context__ of the exception analyze_email raises.  Neither
\* raise statement has a from clause, so __cause__ is never set; the raise
\* inside the except branch gets the exception being handled as its
\* __context__, the raise after the loop runs with no exception being handled
ExceptionChain(before, kind, next, e) ==
    [caught  |-> IF kind = "error" THEN e ELSE before.caught,
     cause   |-> "none",
     context |-> IF kind = "error" /\ next.pc = "raised" THEN e ELSE "none"]

\* one iteration of the retry loop of task i, from the call of the extractor,
\* which gave o, to the next suspension point or to the end of analyze_email
AttemptStep(i, o) ==
    /\ batch_pc = "running"
    /\ pc[i] = "call"
    /\  LET item  == email_batch[i]
            rc    == retry_count[i]
            built == IF o.kind = "content" /\ ~LowConfidence(o)
                        THEN ExtractSemanticContext(i, o, pobj, robj)
                        ELSE [raised |-> TRUE]
            ctx   == WithEmail(built.ctx, item)
            kind  == IF o.kind # "content" THEN "error"
                     ELSE IF LowConfidence(o) THEN "low"
                     ELSE IF built.raised THEN "error"
                     ELSE IF ContextValidate(ctx, built.P, built.R) = "ok"
                          THEN "accepted"
                     ELSE "error"
            next  == IF kind = "low" THEN LowBranch(rc)
                     ELSE IF kind = "error" THEN ExceptBranch(rc)
                     ELSE [retry_count |-> rc, pc |-> "returned", error |-> "none"]
            e     == CaughtException(o, built.raised,
                                     IF built.raised THEN "ok"
                                     ELSE ContextValidate(ctx, built.P, built.R))
        IN  /\ calls' = [calls EXCEPT ![i] = @ + 1]
            /\ raised_from' = [raised_from EXCEPT ![i] =
                                   ExceptionChain(@, kind, next, e)]
            /\ outcomes' = [outcomes EXCEPT ![i] = Append(@, kind)]
            /\ retry_count' = [retry_count EXCEPT ![i] = next.retry_count]
            /\ pc' = [pc EXCEPT ![i] = next.pc]
            /\ error' = [error EXCEPT ![i] = next.error]
            /\ IF o.kind = "content" /\ ~LowConfidence(o) /\ ~built.raised
                  THEN /\ context' = [context EXCEPT ![i] = ctx]
                       /\ pobj' = built.P
                       /\ robj' = built.R
                  ELSE UNCHANGED <<context, pobj, robj>>
            /\ result' = [result EXCEPT ![i] =
                              IF kind = "accepted" THEN ctx ELSE @]
    /\ UNCHANGED <<email_batch, batch_pc, slice, results, failure_log, slept,
                   merge_vars, validate_vars, generator_vars>>

\* one iteration of the retry loop of task i with an extractor that gives any
\* of the outcomes
Attempt(i) ==
    /\ \E o \in ExtractorOutcomes : AttemptStep(i, o)
    /\ UNCHANGED service_vars

\* await asyncio.sleep(1) completes; the loop goes on to its next iteration
Wake(i) ==
    /\ batch_pc = "running"
    /\ pc[i] = "sleeping"
    /\ slept' = [slept EXCEPT ![i] = @ + 1]
    /\ pc' = [pc EXCEPT ![i] = "call"]
    /\ UNCHANGED <<email_batch, batch_pc, slice, results, failure_log,
                   retry_count, context, result, error, calls, outcomes, raised_from,
                   heap_vars, merge_vars, validate_vars,
                   generator_vars, service_vars>>

----------------------------------------------------------------------------
\* services/analyzer.py: analyze_batch

\* the indices of the current slice, in order: batch_slice
SliceIndices ==
    [k \in 1..(IF Len(email_batch) - slice < BATCH_SIZE
                  THEN Len(email_batch) - slice ELSE BATCH_SIZE) |-> slice + k]

\* mutant of GatherResults: one exception among the results discards the slice
GatherResults_AbortOnFailure(idx) ==
    IF \E k \in DOMAIN idx : pc[idx[k]] = "raised" THEN << >>
    ELSE [k \in DOMAIN idx |-> result[idx[k]]]

\* the loop over batch_results: the entries that are no exception, appended in order
GatherResults(idx) ==
    LET ok == SelectSeq(idx, LAMBDA i : pc[i] = "returned")
    IN  [k \in DOMAIN ok |-> result[ok[k]]]

\* the loop over batch_results: one logger.error per entry that is an exception
GatherFailures(idx) ==
    LET bad == SelectSeq(idx, LAMBDA i : pc[i] = "raised")
    IN  [k \in DOMAIN bad |->
            [email_id |-> email_batch[bad[k]].email_id, reason |-> error[bad[k]]]]

\* analyze_batch is called: the check of its argument, then the tasks of the
\* first slice are created
AnalyzeBatch ==
    /\ batch_pc = "called"
    /\ batch_pc' = IF Len(email_batch) = 0 THEN "raised" ELSE "running"
    /\ UNCHANGED <<email_batch, slice, results, failure_log, pc, retry_count,
                   context, result, error, calls, slept, outcomes, raised_from, heap_vars,
                   merge_vars, validate_vars,
                   generator_vars, service_vars>>

\* asyncio.gather(*batch_tasks, return_exceptions=True) completes once every
\* task of the slice has returned or raised; then the loop over its results,
\* and the next slice or the return
Gather ==
    /\ batch_pc = "running"
    /\ \A k \in DOMAIN SliceIndices : pc[SliceIndices[k]] \in {"returned", "raised"}
    /\ results' = results \o GatherResults(SliceIndices)
    /\ failure_log' = failure_log \o GatherFailures(SliceIndices)
    /\ slice' = slice + BATCH_SIZE
    /\ batch_pc' = IF slice + BATCH_SIZE < Len(email_batch) THEN "running" ELSE "returned"
    /\ UNCHANGED <<email_batch, pc, retry_count, context, result, error, calls,
                   slept, outcomes, raised_from, heap_vars, merge_vars, validate_vars,
                   generator_vars, service_vars>>

----------------------------------------------------------------------------
\* The analyzer's specification

\* the emails a caller may pass: a well-formed one, one whose email_id is no
\* UUID (as "test_email_123" of the unit tests), one with an empty email_id
Emails ==
    {[email_id |-> "mail-1", content |-> "Q4 sales update", thread_id |-> "th-1"],
     [email_id |-> "test_email_123", content |-> "Sample", thread_id |-> "th-2"],
     [email_id |-> "", content |-> "Sample", thread_id |-> "th-3"]}

\* the batches of at most n emails
Batches(n) == UNION {[1..k -> Emails] : k \in 0..n}

\* update_context has not been called
MergeIdle ==
    /\ existing_context = None
    /\ new_context = None
    /\ merge_pc = "idle"
    /\ merged = None
    /\ merge_error = NoError
    /\ pobj0 = << >>
    /\ robj0 = << >>
    /\ history = << >>

\* no validate call is made
ValidateIdle ==
    /\ subject = None
    /\ verdict = NoVerdict

\* no create_template, validate_template or version call has been made
NoCall == [op |-> "none"]

\* the template store holds nothing
StoreEmpty ==
    /\ redis_templates = << >>
    /\ redis_versions = << >>
    /\ redis_categories = << >>
    /\ redis_analytics = << >>

\* no track_template_usage call has been made
UsageIdle ==
    /\ usage_pc = << >>
    /\ usage_local = << >>

\* no validate_response call is made
ResponseIdle ==
    /\ response = None
    /\ validation = NoVerdict
    /\ metrics_call = NoUpdate

\* no field values are being combined
CombineIdle ==
    /\ operands = << >>
    /\ combined = << >>

\* no request has reached a route handler
RoutesIdle ==
    /\ http_log = << >>

\* the NLP processor has processed nothing
ProcessorIdle ==
    /\ nlp_cache = << >>
    /\ clock = 0
    /\ processed = << >>

\* no TextAnalyzer call has been made
TextCacheIdle ==
    /\ text_cache = << >>
    /\ cache_calls = << >>

\* nothing else of the services is in use
ServicesIdle == CombineIdle /\ RoutesIdle /\ ProcessorIdle /\ TextCacheIdle

\* the response generator is not in use
GeneratorIdle ==
    /\ StoreEmpty
    /\ template_call = NoCall
    /\ UsageIdle
    /\ ResponseIdle

\* the state when analyze_batch is called with the given batch
AnalyzerInit(batch) ==
    /\ email_batch = batch
    /\ batch_pc = "called"
    /\ slice = 0
    /\ results = << >>
    /\ failure_log = << >>
    /\ pc = [i \in DOMAIN email_batch |-> "new"]
    /\ retry_count = [i \in DOMAIN email_batch |-> 0]
    /\ context = [i \in DOMAIN email_batch |-> None]
    /\ result = [i \in DOMAIN email_batch |-> None]
    /\ error = [i \in DOMAIN email_batch |-> "none"]
    /\ calls = [i \in DOMAIN email_batch |-> 0]
    /\ slept = [i \in DOMAIN email_batch |-> 0]
    /\ outcomes = [i \in DOMAIN email_batch |-> << >>]
    /\ raised_from = [i \in DOMAIN email_batch |-> NothingCaught]
    /\ pobj = << >>
    /\ robj = << >>
    /\ MergeIdle
    /\ ValidateIdle
    /\ GeneratorIdle
    /\ ServicesIdle

\* one request: analyze_email on one email, run as a batch of one (or of none)
Init == \E batch \in Batches(1) : AnalyzerInit(batch)

\* a batch of up to MaxBatch emails analysed concurrently
InitBatch ==
    \E batch \in Batches(MaxBatch) :
        /\ \A k \in DOMAIN batch : batch[k].email_id \in {"mail-1", ""}
        /\ AnalyzerInit(batch)

Next ==
    \/ AnalyzeBatch
    \/ \E i \in DOMAIN email_batch : StartTask(i)
    \/ \E i \in DOMAIN email_batch : Attempt(i)
    \/ \E i \in DOMAIN email_batch : Wake(i)
    \/ Gather

Spec == Init /\ [][Next]_vars

SpecBatch == InitBatch /\ [][Next]_vars

----------------------------------------------------------------------------
\* services/analyzer.py: update_context

\* a Python dict: its keys in insertion order and the value bound to each
EmptyDict == [keys |-> << >>, at |-> << >>]

\* mutant of DictPut: a list of pairs in place of the dict, every key appended
DictPut_KeepsBoth(d, key, v) ==
    [keys |-> Append(d.keys, key), at |-> Store(d.at, key, v)]

\* d[key] = v: a new key goes last, a key already present keeps its place
DictPut(d, key, v) ==
    IF key \in DOMAIN d.at
        THEN [keys |-> d.keys, at |-> [d.at EXCEPT ![key] = v]]
        ELSE [keys |-> Append(d.keys, key), at |-> Store(d.at, key, v)]

RECURSIVE DictFrom(_, _, _)
\* {key: value for ... in list}, the comprehension taken from position k on
DictFrom(ks, vs, k) ==
    IF k = 0 THEN EmptyDict
    ELSE DictPut(DictFrom(ks, vs, k - 1), ks[k], vs[k])

\* list(d.values())
DictValues(d) == [k \in DOMAIN d.keys |-> d.at[d.keys[k]]]

\* mutant of MergedFrequency: the two frequencies added, the division forgotten
MergedFrequency_Sum(a, b) == a + b

\* mutant of MergedFrequency: the policy of the projects (max) applied to the rate
MergedFrequency_Max(a, b) == Max(a, b)

\* (existing_relation.interaction_frequency + new_relation.interaction_frequency) / 2
\* on hundredths; exact for the frequencies of the model, whose sums are even
MergedFrequency(a, b) == (a + b) \div 2

\* max(existing_relation.last_interaction, new_relation.last_interaction)
MergedLastInteraction(a, b) == Max(a, b)

\* max(existing_project.relevance_score, new_project.relevance_score)
MergedRelevance(a, b) == Max(a, b)

\* mutant of MergedKeyTerms: the new terms replace the existing ones
MergedKeyTerms_Overwrite(a, b) == b

\* list(set(existing_project.key_terms + new_project.key_terms))
MergedKeyTerms(a, b) == SetToSeq(Range(a) \cup Range(b))

RECURSIVE MergeProjects(_, _, _, _)
\* the loop "for new_project in new_context.project_contexts" from position k
\* on, with merged_projects = d and the ProjectContext heap P: an instance
\* whose project_id is in d is merged into the instance d holds (assigning
\* to its fields), any other instance is put into d itself
MergeProjects(news, k, d, P) ==
    IF k > Len(news) THEN [d |-> d, P |-> P]
    ELSE LET n  == news[k]
             id == P[n].project_id
         IN  IF id \in DOMAIN d.at
                THEN LET e  == d.at[id]
                         P1 == [P EXCEPT ![e].relevance_score =
                                    MergedRelevance(P[e].relevance_score,
                                                    P[n].relevance_score)]
                         P2 == [P1 EXCEPT ![e].key_terms =
                                    MergedKeyTerms(P1[e].key_terms, P1[n].key_terms)]
                     IN  MergeProjects(news, k + 1, d, P2)
                ELSE MergeProjects(news, k + 1, DictPut(d, id, n), P)

RECURSIVE MergeRelationships(_, _, _, _)
\* the loop "for new_relation in new_context.relationship_contexts" from
\* position k on, with merged_relationships = d and the heap R
MergeRelationships(news, k, d, R) ==
    IF k > Len(news) THEN [d |-> d, R |-> R]
    ELSE LET n  == news[k]
             id == R[n].person_id
         IN  IF id \in DOMAIN d.at
                THEN LET e  == d.at[id]
                         R1 == [R EXCEPT ![e].interaction_frequency =
                                    MergedFrequency(R[e].interaction_frequency,
                                                    R[n].interaction_frequency)]
                         R2 == [R1 EXCEPT ![e].last_interaction =
                                    MergedLastInteraction(R1[e].last_interaction,
                                                          R1[n].last_interaction)]
                     IN  MergeRelationships(news, k + 1, d, R2)
                ELSE MergeRelationships(news, k + 1, DictPut(d, id, n), R)

\* the decimal strings int() and str() convert in the model
Decimals == <<"0", "1", "2", "3", "4", "5", "6", "7", "8", "9">>

\* int(s) does not raise
IsDecimal(s) == \E k \in DOMAIN Decimals : Decimals[k] = s

\* int(s)
ParseInt(s) == (CHOOSE k \in DOMAIN Decimals : Decimals[k] = s) - 1

\* str(n)
FormatInt(n) == Decimals[n + 1]

\* mutant of MergeMetadata: update_count is overridden by the incoming one like
\* any other colliding key
MergeMetadata_IncomingWins(emd, nmd) ==
    [key \in (DOMAIN emd) \cup (DOMAIN nmd) \cup {"update_count"} |->
        IF key \in DOMAIN nmd THEN nmd[key]
        ELSE IF key \in DOMAIN emd THEN emd[key]
        ELSE "1"]

\* existing_context.metadata.get('update_count', '0')
UpdateCountOf(md) ==
    IF "update_count" \in DOMAIN md THEN md["update_count"] ELSE "0"

\* {**existing.metadata, **new.metadata, 'update_count': str(int(...) + 1)}
MergeMetadata(emd, nmd) ==
    [key \in (DOMAIN emd) \cup (DOMAIN nmd) \cup {"update_count"} |->
        IF key = "update_count" THEN FormatInt(ParseInt(UpdateCountOf(emd)) + 1)
        ELSE IF key \in DOMAIN nmd THEN nmd[key]
        ELSE emd[key]]

\* mutant of MergedTopics: the topics of the existing Context are kept
MergedTopics_ExistingKept(a, b) == IF Len(a) > 0 THEN a ELSE b

\* list(set(existing_context.topics + new_context.topics))
MergedTopics(a, b) == SetToSeq(Range(a) \cup Range(b))

\* mutant of MergedConfidence: the incoming score replaces the existing one
MergedConfidence_Incoming(a, b) == b

\* max(existing_context.confidence_score, new_context.confidence_score)
MergedConfidence(a, b) == Max(a, b)

\* the Context(...) update_context constructs from the merged parts
UpdatedContext(ex, new, projects, relationships) ==
    [context_id |-> ex.context_id,
     email_id |-> ex.email_id,
     thread_id |-> ex.thread_id,
     project_contexts |-> projects,
     relationship_contexts |-> relationships,
     topics |-> MergedTopics(ex.topics, new.topics),
     confidence_score |-> MergedConfidence(ex.confidence_score, new.confidence_score),
     analyzed_at |-> new.analyzed_at,
     metadata |-> MergeMetadata(ex.metadata, new.metadata)]

\* the project_ids (person_ids) of a list of addresses, in order
ProjectIds(list, P) == [k \in DOMAIN list |-> P[list[k]].project_id]

PersonIds(list, R) == [k \in DOMAIN list |-> R[list[k]].person_id]

ErrUpdate == "Failed to update context"

\* mutant of InputsValid: only the existing Context is validated
InputsValid_ExistingOnly(ve, vn) == ve = "ok"

\* neither existing_context.validate() nor new_context.validate() raises
InputsValid(ve, vn) == ve = "ok" /\ vn = "ok"

\* mutant of MergedCheck: the merged Context is returned unchecked
MergedCheck_Skipped(updated, P, R) == "ok"

\* updated_context.validate(): "ok" or the ValueError it raises
MergedCheck(updated, P, R) == ContextValidate(updated, P, R)

\* what the try block raises before its return, "ok" if nothing: the
\* ValueError of int() while the arguments of Context(...) are evaluated, the
\* error of the constructor for a confidence_score outside the Field bounds,
\* the ValueError of the validate call on the merged Context
MergeFailure(ex, updated, P, R) ==
    IF ~IsDecimal(UpdateCountOf(ex.metadata))
        THEN "invalid literal for int() with base 10"
    ELSE IF ~ConfidenceInRange(updated.confidence_score)
        THEN "confidence_score: value outside the bounds of the field"
    ELSE MergedCheck(updated, P, R)

\* update_context(existing_context, new_context), from call to return or raise
UpdateContext ==
    /\ merge_pc = "called"
    /\ LET ex == existing_context
           new == new_context
           ve == ContextValidate(ex, pobj, robj)
           vn == ContextValidate(new, pobj, robj)
           mp == MergeProjects(new.project_contexts, 1,
                     DictFrom(ProjectIds(ex.project_contexts, pobj),
                              ex.project_contexts, Len(ex.project_contexts)),
                     pobj)
           mr == MergeRelationships(new.relationship_contexts, 1,
                     DictFrom(PersonIds(ex.relationship_contexts, robj),
                              ex.relationship_contexts, Len(ex.relationship_contexts)),
                     robj)
           updated == UpdatedContext(ex, new, DictValues(mp.d), DictValues(mr.d))
       IN  IF ~InputsValid(ve, vn)
              THEN /\ merge_pc' = "raised"
                   /\ merge_error' = [type |-> "ValueError",
                                      message |-> IF ve # "ok" THEN ve ELSE vn,
                                      cause |-> "none"]
                   /\ UNCHANGED <<merged, pobj, robj>>
           ELSE IF MergeFailure(ex, updated, mp.P, mr.R) # "ok"
              THEN /\ merge_pc' = "raised"
                   /\ merge_error' = [type |-> "RuntimeError", message |-> ErrUpdate,
                                      cause |-> MergeFailure(ex, updated, mp.P, mr.R)]
                   /\ pobj' = mp.P
                   /\ robj' = mr.R
                   /\ UNCHANGED merged
           ELSE /\ merge_pc' = "returned"
                /\ merged' = updated
                /\ pobj' = mp.P
                /\ robj' = mr.R
                /\ UNCHANGED merge_error
    /\ history' = Append(history,
            [existing |-> existing_context, new |-> new_context,
             outcome |-> merge_pc', merged |-> merged', error |-> merge_error',
             pobj0 |-> pobj0, robj0 |-> robj0, pobj |-> pobj', robj |-> robj'])
    /\ UNCHANGED <<analyzer_vars, existing_context, new_context, pobj0, robj0,
                   validate_vars,
                   generator_vars, service_vars>>

----------------------------------------------------------------------------
\* The specification of update_context: one call on two Contexts

\* the ProjectContext values the inputs are built from: two analyses of the
\* project p1 that differ in relevance and key terms, and a project p2
ProjectSamples ==
    {[project_id |-> "p1", project_name |-> "sales", status |-> "ACTIVE",
      relevance_score |-> 96, key_terms |-> <<1>>, last_updated |-> << >>],
     [project_id |-> "p1", project_name |-> "sales", status |-> "ON_HOLD",
      relevance_score |-> 80, key_terms |-> <<2, 1>>, last_updated |-> <<1>>],
     [project_id |-> "p2", project_name |-> "launch", status |-> "ACTIVE",
      relevance_score |-> 75, key_terms |-> <<3>>, last_updated |-> <<0>>]}

\* the RelationshipContext values: two observations of the person r1 that
\* differ in frequency and time, and a person r2
RelationshipSamples ==
    {[person_id |-> "r1", email_address |-> "ann@corp.io",
      interaction_frequency |-> 20, last_interaction |-> 2,
      sentiment_metrics |-> [confidence |-> 96]],
     [person_id |-> "r1", email_address |-> "ann@corp.io",
      interaction_frequency |-> 60, last_interaction |-> 1,
      sentiment_metrics |-> [confidence |-> 80]],
     [person_id |-> "r2", email_address |-> "bob@corp.io",
      interaction_frequency |-> 100, last_interaction |-> 0,
      sentiment_metrics |-> [confidence |-> -40]]}

\* the other fields of a Context: a first analysis, and a later one that was
\* merged once already
Profiles ==
    {[context_id |-> "ctx-1", email_id |-> "mail-1", thread_id |-> "th-1",
      topics |-> <<1, 2>>, confidence_score |-> 96, analyzed_at |-> 1,
      metadata |-> [source |-> "nlp_processor", version |-> "1.0.0",
                    timestamp |-> "t1"]],
     [context_id |-> "ctx-2", email_id |-> "mail-2", thread_id |-> "th-1",
      topics |-> <<3, 2, 2>>, confidence_score |-> 75, analyzed_at |-> 2,
      metadata |-> [source |-> "nlp_processor", version |-> "1.0.1",
                    timestamp |-> "t2", update_count |-> "1"]]}

\* the lists of at most MaxList values of S
Lists(S) == UNION {[1..k -> S] : k \in 0..MaxList}

\* the Context with the given profile whose nested instances are those of
\* owner w, at the addresses <<w, 1>>, <<w, 2>>, ...
ContextOf(w, profile, ps, rs) ==
    [context_id |-> profile.context_id,
     email_id |-> profile.email_id,
     thread_id |-> profile.thread_id,
     project_contexts |-> [k \in DOMAIN ps |-> <<w, k>>],
     relationship_contexts |-> [k \in DOMAIN rs |-> <<w, k>>],
     topics |-> profile.topics,
     confidence_score |-> profile.confidence_score,
     analyzed_at |-> profile.analyzed_at,
     metadata |-> profile.metadata]

\* the heap holding the instances of owner 1 (values xs) and of owner 2 (ys)
HeapOf(xs, ys) ==
    [a \in {<<1, k>> : k \in DOMAIN xs} \cup {<<2, k>> : k \in DOMAIN ys} |->
        IF a[1] = 1 THEN xs[a[2]] ELSE ys[a[2]]]

\* no analyze_batch call is in progress
AnalyzerIdle ==
    /\ email_batch = << >>
    /\ batch_pc = "idle"
    /\ slice = 0
    /\ results = << >>
    /\ failure_log = << >>
    /\ pc = << >>
    /\ retry_count = << >>
    /\ context = << >>
    /\ result = << >>
    /\ error = << >>
    /\ calls = << >>
    /\ slept = << >>
    /\ outcomes = << >>
    /\ raised_from = << >>

\* update_context is called on two Contexts built separately, or on one
\* Context passed as both arguments
InitMerge ==
    /\ AnalyzerIdle
    /\ GeneratorIdle
    /\ ServicesIdle
    /\ \E pe \in Profiles, ps \in Lists(ProjectSamples), rs \in Lists(RelationshipSamples) :
        /\ existing_context = ContextOf(1, pe, ps, rs)
        /\ \/ /\ new_context = existing_context
              /\ pobj = HeapOf(ps, << >>)
              /\ robj = HeapOf(rs, << >>)
           \/ \E pn \in Profiles, pt \in Lists(ProjectSamples),
                 rt \in Lists(RelationshipSamples) :
                  /\ new_context = ContextOf(2, pn, pt, rt)
                  /\ pobj = HeapOf(ps, pt)
                  /\ robj = HeapOf(rs, rt)
    /\ pobj0 = pobj
    /\ robj0 = robj
    /\ merge_pc = "called"
    /\ merged = None
    /\ merge_error = NoError
    /\ history = << >>
    /\ ValidateIdle

NextMerge == UpdateContext

SpecMerge == InitMerge /\ [][NextMerge]_vars

----------------------------------------------------------------------------
\* The specification of successive merges: a caller holds Contexts and calls
\* update_context on them again and again, also on the Contexts it got back

\* the fields of the Contexts merged, other than the nested lists: a first
\* analysis; a later one of lower confidence that carries an update_count and
\* other values under the shared metadata keys; one with nine topics, valid
\* alone; one analysed in the future and one whose metadata lacks the
\* timestamp, both invalid; one whose confidence_score was assigned 1.2
\* after construction, which validate does not look at
SeqProfiles ==
    {[context_id |-> "ctx-1", email_id |-> "mail-1", thread_id |-> "th-1",
      topics |-> <<1, 2>>, confidence_score |-> 96, analyzed_at |-> 1,
      metadata |-> [source |-> "nlp_processor", version |-> "1.0.0",
                    timestamp |-> "t1"]],
     [context_id |-> "ctx-2", email_id |-> "mail-2", thread_id |-> "th-2",
      topics |-> <<3, 2, 2>>, confidence_score |-> 75, analyzed_at |-> 2,
      metadata |-> [source |-> "import", version |-> "1.0.1",
                    timestamp |-> "t2", update_count |-> "3", model |-> "bert"]],
     [context_id |-> "ctx-2", email_id |-> "mail-2", thread_id |-> "th-2",
      topics |-> [k \in 1..(MAX_TOPICS - 1) |-> k + 2],
      confidence_score |-> 80, analyzed_at |-> 0,
      metadata |-> [source |-> "nlp_processor", version |-> "1.0.0",
                    timestamp |-> "t0"]],
     [context_id |-> "ctx-2", email_id |-> "mail-2", thread_id |-> "th-2",
      topics |-> <<4>>, confidence_score |-> 90, analyzed_at |-> MaxTime,
      metadata |-> [source |-> "nlp_processor", version |-> "1.0.0",
                    timestamp |-> "t3"]],
     [context_id |-> "ctx-2", email_id |-> "mail-2", thread_id |-> "th-2",
      topics |-> <<4>>, confidence_score |-> 90, analyzed_at |-> 1,
      metadata |-> [source |-> "nlp_processor", version |-> "1.0.0",
                    model |-> "bert"]],
     [context_id |-> "ctx-2", email_id |-> "mail-2", thread_id |-> "th-2",
      topics |-> <<4>>, confidence_score |-> 120, analyzed_at |-> 1,
      metadata |-> [source |-> "nlp_processor", version |-> "1.0.0",
                    timestamp |-> "t1"]]}

\* the nested lists of the Contexts merged: none; one project and one person;
\* another analysis of the same project and person, with a second of each;
\* and lists that hold the same project and the same person twice, which
\* Context.validate lets pass
SeqNested ==
    {[projects |-> << >>, relationships |-> << >>],
     [projects |->
        <<[project_id |-> "p1", project_name |-> "sales", status |-> "ACTIVE",
           relevance_score |-> 96, key_terms |-> <<1>>, last_updated |-> << >>],
          [project_id |-> "p1", project_name |-> "sales", status |-> "ON_HOLD",
           relevance_score |-> 80, key_terms |-> <<2, 1>>, last_updated |-> <<1>>]>>,
      relationships |->
        <<[person_id |-> "r1", email_address |-> "ann@corp.io",
           interaction_frequency |-> 20, last_interaction |-> 2,
           sentiment_metrics |-> [confidence |-> 96]],
          [person_id |-> "r1", email_address |-> "ann@corp.io",
           interaction_frequency |-> 60, last_interaction |-> 1,
           sentiment_metrics |-> [confidence |-> 80]]>>],
     [projects |->
        <<[project_id |-> "p1", project_name |-> "sales", status |-> "ON_HOLD",
           relevance_score |-> 80, key_terms |-> <<2, 1>>, last_updated |-> <<1>>]>>,
      relationships |->
        <<[person_id |-> "r1", email_address |-> "ann@corp.io",
           interaction_frequency |-> 60, last_interaction |-> 1,
           sentiment_metrics |-> [confidence |-> 80]]>>],
     [projects |->
        <<[project_id |-> "p1", project_name |-> "sales", status |-> "ACTIVE",
           relevance_score |-> 96, key_terms |-> <<1>>, last_updated |-> << >>],
          [project_id |-> "p2", project_name |-> "launch", status |-> "ACTIVE",
           relevance_score |-> 75, key_terms |-> <<3>>, last_updated |-> <<0>>]>>,
      relationships |->
        <<[person_id |-> "r1", email_address |-> "ann@corp.io",
           interaction_frequency |-> 20, last_interaction |-> 2,
           sentiment_metrics |-> [confidence |-> 96]],
          [person_id |-> "r2", email_address |-> "bob@corp.io",
           interaction_frequency |-> 100, last_interaction |-> 0,
           sentiment_metrics |-> [confidence |-> -40]]>>]}

\* the first call: update_context on two Contexts built separately, or on one
\* Context passed as both arguments
InitMergeSeq ==
    /\ AnalyzerIdle
    /\ GeneratorIdle
    /\ ServicesIdle
    /\ ValidateIdle
    /\ \E pe \in SeqProfiles, ne \in SeqNested :
        /\ existing_context = ContextOf(1, pe, ne.projects, ne.relationships)
        /\ \/ /\ new_context = existing_context
              /\ pobj = HeapOf(ne.projects, << >>)
              /\ robj = HeapOf(ne.relationships, << >>)
           \/ \E pn \in SeqProfiles, nn \in SeqNested :
                  /\ new_context = ContextOf(2, pn, nn.projects, nn.relationships)
                  /\ pobj = HeapOf(ne.projects, nn.projects)
                  /\ robj = HeapOf(ne.relationships, nn.relationships)
    /\ pobj0 = pobj
    /\ robj0 = robj
    /\ merge_pc = "called"
    /\ merged = None
    /\ merge_error = NoError
    /\ history = << >>

\* the Contexts the caller holds: the arguments and the results of its calls
KnownContexts ==
    UNION {{history[k].existing, history[k].new} \cup
           (IF history[k].outcome = "returned" THEN {history[k].merged} ELSE {}) :
           k \in DOMAIN history}

\* the caller calls update_context(ex, new) once more
CallUpdateContext(ex, new) ==
    /\ merge_pc \in {"returned", "raised"}
    /\ Len(history) < MaxCalls
    /\ existing_context' = ex
    /\ new_context' = new
    /\ merge_pc' = "called"
    /\ merged' = None
    /\ merge_error' = NoError
    /\ pobj0' = pobj
    /\ robj0' = robj
    /\ UNCHANGED <<analyzer_vars, heap_vars, history, validate_vars,
                   generator_vars, service_vars>>

NextMergeSeq ==
    \/ UpdateContext
    \/ \E ex \in KnownContexts, new \in KnownContexts : CallUpdateContext(ex, new)

SpecMergeSeq == InitMergeSeq /\ [][NextMergeSeq]_vars

----------------------------------------------------------------------------
\* The specification of the validators: one validate call on a Context or on
\* one of its nested instances

\* a ProjectContext that passes validate
ValidProject ==
    [project_id |-> "p1", project_name |-> "sales", status |-> "ACTIVE",
     relevance_score |-> 96, key_terms |-> <<1>>, last_updated |-> <<1>>]

\* the project lists of the Contexts validated: none, a valid project, and a
\* valid project followed by one with a fault.  A relevance_score of 150
\* (1.5) is one assigned to the field after construction: the Field bounds
\* are checked when the dataclass is constructed, an assignment is not checked
ProjectFaults ==
    { << >>,
      <<ValidProject>>,
      <<ValidProject, [ValidProject EXCEPT !.last_updated = <<MaxTime>>]>>,
      <<ValidProject, [ValidProject EXCEPT !.key_terms = << >>]>>,
      <<ValidProject, [ValidProject EXCEPT !.project_id = ""]>>,
      <<[ValidProject EXCEPT !.relevance_score = 150]>> }

\* a RelationshipContext that passes validate
ValidRelationship ==
    [person_id |-> "r1", email_address |-> "ann@corp.io",
     interaction_frequency |-> 60, last_interaction |-> 1,
     sentiment_metrics |-> [confidence |-> 80]]

\* the relationship lists of the Contexts validated
RelationshipFaults ==
    { << >>,
      <<ValidRelationship>>,
      <<[ValidRelationship EXCEPT !.email_address = ""]>>,
      <<ValidRelationship, [ValidRelationship EXCEPT !.interaction_frequency = 150]>>,
      <<[ValidRelationship EXCEPT !.sentiment_metrics = [confidence |-> -120]]>> }

\* the identifiers, topics, metadata and timestamps of the Contexts validated
IdFaults ==
    { [context_id |-> "ctx-1", email_id |-> "mail-1"],
      [context_id |-> "4242", email_id |-> "mail-1"],
      [context_id |-> "ctx-1", email_id |-> "test_email_123"] }

TopicFaults ==
    { <<1, 2>>, [k \in 1..MAX_TOPICS |-> k], [k \in 1..(MAX_TOPICS + 1) |-> k] }

MetadataFaults ==
    { [source |-> "nlp_processor", version |-> "1.0.0", timestamp |-> "t1"],
      [source |-> "nlp_processor", version |-> "1.0.0", model |-> "bert"],
      [timestamp |-> "t1"] }

TimestampFaults == {0, Now, MaxTime}

\* validate is about to be called on a Context with any combination of faults
InitValidate ==
    /\ AnalyzerIdle
    /\ GeneratorIdle
    /\ ServicesIdle
    /\ MergeIdle
    /\ verdict = NoVerdict
    /\ \E ids \in IdFaults, ts \in TopicFaults, md \in MetadataFaults,
          ps \in ProjectFaults, rs \in RelationshipFaults, at \in TimestampFaults :
          /\ subject = ContextOf(1,
                           [context_id |-> ids.context_id, email_id |-> ids.email_id,
                            thread_id |-> "th-1", topics |-> ts,
                            confidence_score |-> 96, analyzed_at |-> at,
                            metadata |-> md],
                           ps, rs)
          /\ pobj = HeapOf(ps, << >>)
          /\ robj = HeapOf(rs, << >>)

\* subject.validate()
ValidateContext ==
    /\ subject # None
    /\ verdict = NoVerdict
    /\ verdict' = [on |-> "context", outcome |-> ContextValidate(subject, pobj, robj)]
    /\ UNCHANGED <<analyzer_vars, heap_vars, merge_vars, subject, generator_vars,
                   service_vars>>

\* project_context.validate() on the instance at address a
ValidateProject(a) ==
    /\ subject # None
    /\ verdict = NoVerdict
    /\ verdict' = [on |-> "project", at |-> a, outcome |-> ProjectValidate(pobj[a])]
    /\ UNCHANGED <<analyzer_vars, heap_vars, merge_vars, subject, generator_vars,
                   service_vars>>

\* relationship_context.validate() on the instance at address a
ValidateRelationship(a) ==
    /\ subject # None
    /\ verdict = NoVerdict
    /\ verdict' = [on |-> "relationship", at |-> a,
                   outcome |-> RelationshipValidate(robj[a])]
    /\ UNCHANGED <<analyzer_vars, heap_vars, merge_vars, subject, generator_vars,
                   service_vars>>

NextValidate ==
    \/ ValidateContext
    \/ \E a \in DOMAIN pobj : ValidateProject(a)
    \/ \E a \in DOMAIN robj : ValidateRelationship(a)

SpecValidate == InitValidate /\ [][NextValidate]_vars

----------------------------------------------------------------------------
\* Response Generator: ResponseTemplate (models/response.py) and
\* TemplateManager.create_template (services/template_manager.py).
\*
\* A template's content is a string; the model keeps of it what the code looks
\* at: len(content), the set of names re.findall(r'\{(\w+)\}', content) finds,
\* and which of the tone words occur in content.lower().  The store is the
\* Redis client the manager is given; each awaited command is one atomic
\* operation on it, and a pipeline's commands take effect together at execute().

\* no exception
NoRaise == [type |-> "none", message |-> ""]

ValueError(msg) == [type |-> "ValueError", message |-> msg]

ErrTemplateSize == "Template content exceeds maximum size"

ErrNoPlaceholder == "Template must contain at least one placeholder"

ErrTemplateValidation == "Template validation failed"

ErrTemplateConfidence == "Template confidence score below threshold"

\* re.findall(r'\{(\w+)\}', content), as a set
FindPlaceholders(content) == content.placeholders

\* the validator of ResponseTemplate.content: the constructor raises when the
\* content holds no placeholder
ExtractPlaceholders(content) ==
    IF FindPlaceholders(content) = {} THEN ValueError(ErrNoPlaceholder) ELSE NoRaise

\* ResponseTemplate(...): the fields as the constructor sets them
ResponseTemplate(id, name, content, tone, placeholders, tags, metadata, version) ==
    [template_id |-> id, name |-> name, content |-> content, tone |-> tone,
     placeholders |-> placeholders, tags |-> tags, is_active |-> TRUE,
     version |-> version, usage_metrics |-> << >>, metadata |-> metadata]

Verdict(passed) == IF passed THEN "passed" ELSE "failed"

ValidateFormat(t) == Verdict(t.content.size >= MIN_TEMPLATE_LENGTH)

\* mutant of ValidatePlaceholders: every declared placeholder occurs in the
\* content, but the content may hold more
ValidatePlaceholders_Subset(t) ==
    Verdict(Range(t.placeholders) \subseteq FindPlaceholders(t.content))

ValidatePlaceholders(t) ==
    Verdict(FindPlaceholders(t.content) = Range(t.placeholders))

\* tone_words of _validate_template_tone; a tone without an entry expects no word
TemplateToneWords(tone) ==
    CASE tone = "TONE_PROFESSIONAL" -> {"please", "would", "kindly"}
      [] tone = "TONE_FRIENDLY" -> {"thanks", "great", "appreciate"}
      [] tone = "TONE_FORMAL" -> {"accordingly", "pursuant", "hereby"}
      [] OTHER -> {}

\* found_words >= len(expected_words) * 0.3
ValidateTemplateTone(t) ==
    LET expected_words == TemplateToneWords(t.tone)
        found_words == Cardinality(expected_words \cap t.content.words)
    IN  Verdict(10 * found_words >= 3 * Cardinality(expected_words))

ValidateVersion(t) == Verdict(t.version > 0)

\* ResponseTemplate.validate_template
ValidateTemplate(t) ==
    [format_check |-> ValidateFormat(t),
     placeholder_check |-> ValidatePlaceholders(t),
     tone_check |-> ValidateTemplateTone(t),
     version_check |-> ValidateVersion(t)]

\* all(result == 'passed' for result in validation_results.values())
AllPassed(validation_results) ==
    \A check \in DOMAIN validation_results : validation_results[check] = "passed"

\* the template create_template builds: no placeholders argument is given,
\* so the field keeps its default, the empty list
CreatedTemplate(id, name, content, tone, tags, metadata) ==
    ResponseTemplate(id, name, content, tone, << >>, tags, metadata, 1)

\* the exception create_template raises for its arguments and the score the
\* scorer would give, NoRaise when it stores the template; the checks in the
\* order of the code
CreateFailure(name, content, tone, tags, metadata, score) ==
    IF content.size > MAX_TEMPLATE_SIZE THEN ValueError(ErrTemplateSize)
    ELSE IF ExtractPlaceholders(content) # NoRaise THEN ExtractPlaceholders(content)
    ELSE IF ~AllPassed(ValidateTemplate(CreatedTemplate(0, name, content, tone, tags, metadata)))
        THEN ValueError(ErrTemplateValidation)
    ELSE IF score < TEMPLATE_MIN_CONFIDENCE_SCORE THEN ValueError(ErrTemplateConfidence)
    ELSE NoRaise

\* what the pipeline of create_template writes under analytics:<id>
NewAnalytics == [usage_count |-> 0, success_rate |-> <<0, 1>>, created_at |-> "now"]

\* sadd on a set that may not exist yet
SetAdd(sets, key, member) ==
    IF key \in DOMAIN sets THEN [sets EXCEPT ![key] = @ \cup {member}]
    ELSE Store(sets, key, {member})

\* template ids (uuid4 strings) and the other inputs of the template calls
TemplateIds == 1 .. 2

\* the template ids a store may hold at the start and the usage calls name
UsedTemplateIds == {1}

Tones == {"TONE_PROFESSIONAL", "TONE_CASUAL"}

Categories == {"CATEGORY_ACKNOWLEDGMENT"}

PlaceholderNames == {"a", "b"}

TemplateSizes == {9, 49, 50, 50000, 50001}

ContentSamples ==
    [size : TemplateSizes, placeholders : SUBSET PlaceholderNames,
     words : {{}, {"please"}}]

\* aggregate_score values the scorer gives
ScoreSamples == {50, 74, 75, 85}

\* placeholder lists a caller of ResponseTemplate declares
DeclaredSamples == {<< >>, <<"a">>, <<"b">>, <<"a", "b">>, <<"b", "a", "a">>}

VersionSamples == {0, 1}

\* create_template(name, content, tone, category, tags, metadata)
CreateTemplate ==
    /\ \E content \in ContentSamples, tone \in Tones, category \in Categories,
          score \in ScoreSamples :
        LET failure == CreateFailure("name", content, tone, << >>, << >>, score)
            stored == TemplateIds \cap DOMAIN redis_templates
            id == CHOOSE i \in TemplateIds \ stored : \A j \in TemplateIds \ stored : i <= j
            template == CreatedTemplate(id, "name", content, tone, << >>, << >>)
        IN  IF failure # NoRaise
                THEN /\ template_call' =
                            [op |-> "create_template", content |-> content,
                             tone |-> tone, category |-> category, score |-> score,
                             outcome |-> "raised", error |-> failure,
                             template |-> None]
                     /\ UNCHANGED store_vars
                ELSE /\ TemplateIds \ stored # {}
                     /\ template_call' =
                            [op |-> "create_template", content |-> content,
                             tone |-> tone, category |-> category, score |-> score,
                             outcome |-> "returned", error |-> NoRaise,
                             template |-> template]
                     /\ redis_templates' = Store(redis_templates, id, template)
                     /\ redis_categories' = SetAdd(redis_categories, category, id)
                     /\ redis_analytics' = Store(redis_analytics, id, NewAnalytics)
                     /\ UNCHANGED redis_versions
    /\ UNCHANGED <<analyzer_vars, heap_vars, merge_vars, validate_vars, service_vars,
                   usage_vars, response_vars>>

\* a caller builds a ResponseTemplate with the placeholders it declares and
\* runs validate_template on it, reading the result as create_template does
ValidateTemplateCall ==
    /\ \E content \in ContentSamples, tone \in Tones, declared \in DeclaredSamples,
          version \in VersionSamples :
        LET t == ResponseTemplate(0, "name", content, tone, declared, << >>, << >>,
                                  version)
        IN  template_call' =
                IF ExtractPlaceholders(content) # NoRaise
                    THEN [op |-> "validate_template", content |-> content,
                          declared |-> declared, outcome |-> "raised",
                          error |-> ExtractPlaceholders(content)]
                    ELSE [op |-> "validate_template", content |-> content,
                          declared |-> declared, outcome |-> "returned",
                          error |-> NoRaise, template |-> t,
                          validation_results |-> ValidateTemplate(t),
                          accepted |-> AllPassed(ValidateTemplate(t))]
    /\ UNCHANGED <<analyzer_vars, heap_vars, merge_vars, validate_vars, service_vars,
                   store_vars, usage_vars, response_vars>>

\* the context engine is not in use
ContextEngineIdle ==
    /\ AnalyzerIdle
    /\ pobj = << >>
    /\ robj = << >>
    /\ MergeIdle
    /\ ValidateIdle

\* a manager on an empty store
InitTemplate ==
    /\ ContextEngineIdle
    /\ ServicesIdle
    /\ GeneratorIdle

NextTemplate ==
    \/ CreateTemplate
    \/ ValidateTemplateCall

SpecTemplate == InitTemplate /\ [][NextTemplate]_vars

----------------------------------------------------------------------------
\* Template versioning.  TemplateManager has no method that makes a second
\* version: its tests call update_template / version_template and
\* get_template_versions.  They are modelled from the specification's
\* TemplateStore: version(template_id, content?, tone?) appends a record with
\* version = previous.version + 1, keeps the earlier records, and makes the
\* template_id resolve to the new record; the content is checked and scored
\* as at creation.

ErrTemplateNotFound == "Template not found"

\* the placeholders of a stored template are derived from its content
DerivedPlaceholders(content) ==
    SelectSeq(<<"a", "b">>, LAMBDA name : name \in FindPlaceholders(content))

\* version 1 of a template as the store holds it after a creation
StoredTemplate(id, content, tone) ==
    ResponseTemplate(id, "name", content, tone, DerivedPlaceholders(content),
                     << >>, << >>, 1)

\* mutant of NextVersion: the new record keeps the number of the previous one
NextVersion_SameNumber(previous, content, tone) ==
    [previous EXCEPT !.content = content, !.tone = tone,
                     !.placeholders = DerivedPlaceholders(content)]

\* the record of the next version
NextVersion(previous, content, tone) ==
    [previous EXCEPT !.content = content, !.tone = tone,
                     !.placeholders = DerivedPlaceholders(content),
                     !.version = previous.version + 1]

\* the error a new version fails with, NoRaise when it is accepted
VersionFailure(t, score) ==
    IF t.content.size > MAX_TEMPLATE_SIZE THEN ValueError(ErrTemplateSize)
    ELSE IF ExtractPlaceholders(t.content) # NoRaise THEN ExtractPlaceholders(t.content)
    ELSE IF ~AllPassed(ValidateTemplate(t)) THEN ValueError(ErrTemplateValidation)
    ELSE IF score < TEMPLATE_MIN_CONFIDENCE_SCORE THEN ValueError(ErrTemplateConfidence)
    ELSE NoRaise

\* get_template_versions(template_id): the full history, oldest first
GetTemplateVersions(id) == redis_versions[id]

\* the record template_id resolves to
GetTemplate(id) == redis_templates[id]

\* contents given to the version call
VersionContents ==
    {[size |-> 120, placeholders |-> {"a"}, words |-> {"please"}],
     [size |-> 150, placeholders |-> {"a", "b"}, words |-> {"please"}],
     [size |-> 120, placeholders |-> {}, words |-> {"please"}]}

VersionScores == {50, 85}

\* an optional argument: << >> when left out, <<v>> when given
Optional(S) == {<< >>} \cup {<<v>> : v \in S}

\* version_template(template_id, content=..., tone=...); an argument left out
\* keeps the field of the previous version
VersionTemplate(id) ==
    /\ id \in DOMAIN redis_versions => Len(redis_versions[id]) < MaxVersions
    /\ \E content \in Optional(VersionContents), tone \in Optional(Tones),
          score \in VersionScores :
        LET call == [op |-> "version_template", template_id |-> id,
                     content |-> content, tone |-> tone, score |-> score]
        IN  IF id \notin DOMAIN redis_templates
                THEN /\ template_call' =
                            [outcome |-> "raised",
                             error |-> ValueError(ErrTemplateNotFound),
                             template |-> None] @@ call
                     /\ UNCHANGED store_vars
                ELSE LET previous == GetTemplate(id)
                         t == NextVersion(previous,
                                  IF content = << >> THEN previous.content
                                                     ELSE content[1],
                                  IF tone = << >> THEN previous.tone ELSE tone[1])
                         failure == VersionFailure(t, score)
                     IN  IF failure # NoRaise
                             THEN /\ template_call' =
                                        [outcome |-> "raised", error |-> failure,
                                         template |-> None] @@ call
                                  /\ UNCHANGED store_vars
                             ELSE /\ template_call' =
                                        [outcome |-> "returned", error |-> NoRaise,
                                         template |-> t] @@ call
                                  /\ redis_versions' =
                                        [redis_versions EXCEPT ![id] = Append(@, t)]
                                  /\ redis_templates' =
                                        [redis_templates EXCEPT ![id] = t]
                                  /\ UNCHANGED <<redis_categories, redis_analytics>>
    /\ UNCHANGED <<analyzer_vars, heap_vars, merge_vars, validate_vars, service_vars,
                   usage_vars, response_vars>>

\* a store that holds version 1 of some templates, each with its analytics
\* record and its place in the category set
SeededStore(ids, content, tone) ==
    /\ redis_templates = [id \in ids |-> StoredTemplate(id, content, tone)]
    /\ redis_versions = [id \in ids |-> <<StoredTemplate(id, content, tone)>>]
    /\ redis_categories =
           IF ids = {} THEN << >> ELSE [c \in Categories |-> ids]
    /\ redis_analytics = [id \in ids |-> NewAnalytics]

InitVersion ==
    /\ ContextEngineIdle
    /\ ServicesIdle
    /\ template_call = NoCall
    /\ UsageIdle
    /\ ResponseIdle
    /\ \E ids \in SUBSET UsedTemplateIds, tone \in Tones :
        SeededStore(ids, [size |-> 120, placeholders |-> {"a"}, words |-> {"please"}],
                    tone)

NextVersionStep == \E id \in TemplateIds : VersionTemplate(id)

SpecVersion == InitVersion /\ [][NextVersionStep]_vars

----------------------------------------------------------------------------
\* TemplateManager.track_template_usage.  Every awaited command of the store
\* is one atomic operation; between two of them the call is suspended and
\* other calls run.  A success rate is a fraction <<numerator, denominator>>
\* in lowest terms (the floats of the code are exact on the values the model
\* reaches); a hash of the store is a function from its field names.

RECURSIVE GCD(_, _)
GCD(a, b) == IF b = 0 THEN a ELSE GCD(b, a % b)

\* the fraction n / d in lowest terms
Fraction(n, d) == IF n = 0 THEN <<0, 1>> ELSE <<n \div GCD(n, d), d \div GCD(n, d)>>

\* int(usage_data["success"])
IntOfBool(b) == IF b THEN 1 ELSE 0

\* mutant of NewSuccess: the old rate is weighted by the new count
NewSuccess_OldWeightedByN(current_success, total_uses, success) ==
    Fraction(current_success[1] * total_uses + IntOfBool(success) * current_success[2],
             current_success[2] * total_uses)

\* (current_success * (total_uses - 1) + int(usage_data["success"])) / total_uses
NewSuccess(current_success, total_uses, success) ==
    Fraction(current_success[1] * (total_uses - 1)
                 + IntOfBool(success) * current_success[2],
             current_success[2] * total_uses)

\* hget(key, field): << >> for None
Hget(hashes, key, field) ==
    IF key \in DOMAIN hashes /\ field \in DOMAIN hashes[key]
        THEN <<hashes[key][field]>> ELSE << >>

\* the fields of a hash, none when the key does not exist
HashOf(hashes, key) == IF key \in DOMAIN hashes THEN hashes[key] ELSE << >>

\* hmset(key, mapping): the fields of the mapping are written, the others kept
Hmset(hashes, key, mapping) == Store(hashes, key, mapping @@ HashOf(hashes, key))

\* the value hincrby(key, field, 1) returns: a missing field counts from 0
Incremented(hashes, key, field) ==
    IF Hget(hashes, key, field) = << >> THEN 1 ELSE Hget(hashes, key, field)[1] + 1

\* hincrby(key, field, 1)
Hincrby(hashes, key, field) ==
    Hmset(hashes, key, (field :> Incremented(hashes, key, field)))

\* float(hget(analytics_key, "success_rate") or 0)
CurrentSuccess(hashes, key) ==
    IF Hget(hashes, key, "success_rate") = << >> THEN <<0, 1>>
    ELSE Hget(hashes, key, "success_rate")[1]

\* usage_data: with "success" true or false, or without the key
UsageData == {[success |-> TRUE], [success |-> FALSE], [response_time |-> 1]}

\* "success" in usage_data
HasSuccess(usage_data) == "success" \in DOMAIN usage_data

UsageTasks == DOMAIN usage_pc

\* every call made so far has returned, True ("returned") or False ("failed")
NoCallRunning == \A t \in UsageTasks : usage_pc[t] \in {"returned", "failed"}

\* track_template_usage(template_id, usage_data) is called and runs to its
\* first store command, hincrby, which takes effect
TrackTemplateUsage ==
    /\ Len(usage_pc) < MaxUsage
    /\ \E template_id \in UsedTemplateIds, usage_data \in UsageData :
        /\ redis_analytics' = Hincrby(redis_analytics, template_id, "usage_count")
        /\ usage_local' =
               Append(usage_local,
                      [template_id |-> template_id, usage_data |-> usage_data,
                       usage_count |->
                           Incremented(redis_analytics, template_id, "usage_count"),
                       success_rate |-> << >>, template_data |-> << >>,
                       before |-> HashOf(redis_analytics, template_id)])
        /\ usage_pc' = Append(usage_pc, IF HasSuccess(usage_data) THEN "hget" ELSE "hmset")
    /\ UNCHANGED <<analyzer_vars, heap_vars, merge_vars, validate_vars, service_vars,
                   redis_templates, redis_versions, redis_categories,
                   template_call, response_vars>>

\* hget(analytics_key, "success_rate") and the new rate computed from it
HgetSuccessRate(t) ==
    /\ usage_pc[t] = "hget"
    /\ usage_local' =
           [usage_local EXCEPT ![t].success_rate =
               <<NewSuccess(CurrentSuccess(redis_analytics, usage_local[t].template_id),
                            usage_local[t].usage_count,
                            usage_local[t].usage_data.success)>>]
    /\ usage_pc' = [usage_pc EXCEPT ![t] = "hmset"]
    /\ UNCHANGED <<analyzer_vars, heap_vars, merge_vars, validate_vars, service_vars,
                   store_vars, template_call, response_vars>>

\* usage_metrics as the call holds it before hmset
UsageMetrics(local) ==
    IF local.success_rate = << >>
        THEN [last_used |-> "now", usage_count |-> local.usage_count]
        ELSE [last_used |-> "now", usage_count |-> local.usage_count,
              success_rate |-> local.success_rate[1]]

\* hmset(analytics_key, usage_metrics)
HmsetUsageMetrics(t) ==
    /\ usage_pc[t] = "hmset"
    /\ redis_analytics' =
           Hmset(redis_analytics, usage_local[t].template_id, UsageMetrics(usage_local[t]))
    /\ usage_pc' = [usage_pc EXCEPT ![t] = "get"]
    /\ UNCHANGED <<analyzer_vars, heap_vars, merge_vars, validate_vars, service_vars,
                   redis_templates, redis_versions, redis_categories,
                   template_call, usage_local, response_vars>>

\* get(template_key)
GetTemplateData(t) ==
    /\ usage_pc[t] = "get"
    /\ IF usage_local[t].template_id \in DOMAIN redis_templates
           THEN /\ usage_local' =
                       [usage_local EXCEPT ![t].template_data =
                           <<GetTemplate(usage_local[t].template_id)>>]
                /\ usage_pc' = [usage_pc EXCEPT ![t] = "set"]
           ELSE /\ usage_pc' = [usage_pc EXCEPT ![t] = "cleanup"]
                /\ UNCHANGED usage_local
    /\ UNCHANGED <<analyzer_vars, heap_vars, merge_vars, validate_vars, service_vars,
                   store_vars, template_call, response_vars>>

\* template.metadata.update({"last_used": ..., "usage_count": ...})
WithUsageMetadata(template, local) ==
    [template EXCEPT !.metadata =
        [last_used |-> "now", usage_count |-> local.usage_count] @@ @]

\* set(template_key, template.model_dump_json())
SetTemplateData(t) ==
    /\ usage_pc[t] = "set"
    /\ redis_templates' =
           Store(redis_templates, usage_local[t].template_id,
                 WithUsageMetadata(usage_local[t].template_data[1], usage_local[t]))
    /\ usage_pc' = [usage_pc EXCEPT ![t] = "cleanup"]
    /\ UNCHANGED <<analyzer_vars, heap_vars, merge_vars, validate_vars, service_vars,
                   redis_versions, redis_categories, redis_analytics,
                   template_call, usage_local, response_vars>>

\* the fields _cleanup_old_analytics deletes: the "daily_<date>" fields older
\* than the retention date; no field of the hashes here is a daily one
OldDailyFields(hash) == {field \in DOMAIN hash : field = "daily_old"}

\* _cleanup_old_analytics: hgetall, an hdel for each old daily field, and
\* track_template_usage returns True
CleanupOldAnalytics(t) ==
    /\ usage_pc[t] = "cleanup"
    /\ redis_analytics' =
           LET key == usage_local[t].template_id
               hash == HashOf(redis_analytics, key)
           IN  IF OldDailyFields(hash) = {} THEN redis_analytics
               ELSE Store(redis_analytics, key,
                          [field \in DOMAIN hash \ OldDailyFields(hash) |-> hash[field]])
    /\ usage_pc' = [usage_pc EXCEPT ![t] = "returned"]
    /\ UNCHANGED <<analyzer_vars, heap_vars, merge_vars, validate_vars, service_vars,
                   redis_templates, redis_versions, redis_categories,
                   template_call, usage_local, response_vars>>

\* a store that holds nothing about the template, or version 1 of it with the
\* analytics record of a new template
InitUsage ==
    /\ ContextEngineIdle
    /\ ServicesIdle
    /\ template_call = NoCall
    /\ UsageIdle
    /\ ResponseIdle
    /\ \E ids \in SUBSET UsedTemplateIds :
        SeededStore(ids, [size |-> 120, placeholders |-> {"a"}, words |-> {"please"}],
                    "TONE_PROFESSIONAL")

\* calls made concurrently: a call may start while others are suspended
NextUsage ==
    \/ TrackTemplateUsage
    \/ \E t \in UsageTasks : HgetSuccessRate(t)
    \/ \E t \in UsageTasks : HmsetUsageMetrics(t)
    \/ \E t \in UsageTasks : GetTemplateData(t)
    \/ \E t \in UsageTasks : SetTemplateData(t)
    \/ \E t \in UsageTasks : CleanupOldAnalytics(t)

SpecUsage == InitUsage /\ [][NextUsage]_vars

\* track_template_usage called when every earlier call has returned
TrackTemplateUsageNext ==
    /\ NoCallRunning
    /\ TrackTemplateUsage

\* calls made one after the other
NextUsageSeq ==
    \/ TrackTemplateUsageNext
    \/ \E t \in UsageTasks : HgetSuccessRate(t)
    \/ \E t \in UsageTasks : HmsetUsageMetrics(t)
    \/ \E t \in UsageTasks : GetTemplateData(t)
    \/ \E t \in UsageTasks : SetTemplateData(t)
    \/ \E t \in UsageTasks : CleanupOldAnalytics(t)

SpecUsageSeq == InitUsage /\ [][NextUsageSeq]_vars

----------------------------------------------------------------------------
\* ResponseGenerator.validate_response and Response.validate_content.  Of a
\* response's content the model keeps what the checks look at: its length,
\* whether content.lower() holds a greeting, a closing, a prohibited term,
\* the number of its lines, and which tone markers occur in it.

\* _validate_structure
ValidateStructure(r) ==
    /\ r.content.greeting
    /\ r.content.closing
    /\ r.content.lines > 2

\* tone_markers of Response._validate_tone; a tone without an entry expects none
ToneMarkers(tone) ==
    CASE tone = "TONE_PROFESSIONAL" -> {"please", "would", "kindly"}
      [] tone = "TONE_FRIENDLY" -> {"thanks", "great", "appreciate"}
      [] tone = "TONE_FORMAL" -> {"accordingly", "pursuant", "hereby"}
      [] tone = "TONE_CASUAL" -> {"hey", "sure", "okay"}
      [] OTHER -> {}

\* _validate_tone: found_markers >= len(expected_markers) * 0.3
ValidateTone(r) ==
    10 * Cardinality(ToneMarkers(r.tone) \cap r.content.words)
        >= 3 * Cardinality(ToneMarkers(r.tone))

\* _check_prohibited_content: True when no prohibited term occurs
CheckProhibitedContent(r) == ~r.content.prohibited

\* the dictionary validate_content builds
ContentValidation(r) ==
    [length_check |-> Verdict(r.content.size >= MIN_RESPONSE_LENGTH),
     structure_check |-> Verdict(ValidateStructure(r)),
     tone_consistency |-> Verdict(ValidateTone(r)),
     prohibited_content |-> Verdict(CheckProhibitedContent(r))]

\* a value of the learning_metrics dictionary: a number (in hundredths) or
\* something that is not a number, such as the isoformat string of l.149
Float(v) == [type |-> "float", value |-> v]

Str == [type |-> "str"]

\* isinstance(score, (int, float))
IsNumeric(score) == score.type = "float"

\* the number of checks of a dictionary that passed
PassedChecks(validation_results) ==
    Cardinality({check \in DOMAIN validation_results :
                    validation_results[check] = "passed"})

\* the response after validate_content: validation_results replaced,
\* learning_metrics['validation_score'] = passed_checks / total_checks (hundredths)
\* and learning_metrics['last_validation'] set, the other metrics kept
AfterValidateContent(r) ==
    [r EXCEPT !.validation_results = ContentValidation(r),
              !.learning_metrics =
                  [validation_score |->
                       Float((100 * PassedChecks(ContentValidation(r))) \div 4),
                   last_validation |-> Str] @@ @]

\* _validate_business_rules
BusinessRulesValid(r) == TRUE

\* is_valid of validate_response
IsValid(content_validation, score, business_rules_valid) ==
    /\ content_validation.structure_check = "passed"
    /\ score >= GENERATOR_MIN_CONFIDENCE_THRESHOLD
    /\ business_rules_valid

\* what a caller gets from validate_response: a returned tuple
ReturnedTuple(passed, message, metrics, score) ==
    [on |-> "response", outcome |-> "returned", passed |-> passed,
     message |-> message, metrics |-> metrics, score |-> score]

\* the except branch of validate_response: any exception becomes a tuple
ValidationError(score) ==
    ReturnedTuple(FALSE, "Validation error", << >>, score)

\* the try block of validate_response for a Response and the aggregate_score
\* the scorer gives (<< >>: the scorer raises)
ValidateResponseResult(r, score) ==
    IF score = << >> THEN ValidationError(score)
    ELSE IF score[1] < GENERATOR_MIN_CONFIDENCE_THRESHOLD
        THEN ReturnedTuple(FALSE, "Confidence score below threshold",
                           [content_structure |-> ContentValidation(r),
                            tone_consistency |-> score[1]],
                           score)
    ELSE LET is_valid == IsValid(ContentValidation(r), score[1], BusinessRulesValid(r))
         IN  ReturnedTuple(is_valid,
                           IF is_valid THEN "Validation successful"
                                       ELSE "Validation failed",
                           [content_structure |-> ContentValidation(r),
                            tone_consistency |-> score[1],
                            business_rules |-> BusinessRulesValid(r)],
                           score)

\* contents of a Response: the constructor accepts at least 10 characters
ResponseContents ==
    [size : {10, 200}, greeting : BOOLEAN, closing : BOOLEAN, lines : {1, 3},
     words : SUBSET {"please", "great"}, prohibited : BOOLEAN]

ResponseSamples ==
    [content : ResponseContents, tone : {"TONE_PROFESSIONAL", "TONE_FRIENDLY"},
     confidence_score : {0}, validation_results : {<< >>}, learning_metrics : {<< >>}]

\* aggregate_score values of the scorer
ResponseScores == {50, 69, 70, 85}

\* validate_response(response, validation_context)
ValidateResponse ==
    /\ validation = NoVerdict
    /\ \E score \in Optional(ResponseScores) :
        IF response = None
            THEN /\ validation' = ValidationError(score)
                 /\ UNCHANGED response
            ELSE /\ validation' = ValidateResponseResult(response, score)
                 /\ response' = AfterValidateContent(response)
    /\ UNCHANGED <<analyzer_vars, heap_vars, merge_vars, validate_vars, service_vars,
                   store_vars, template_call, usage_vars, metrics_call>>

\* a caller holds a Response, or passes no Response object
InitResponse ==
    /\ ContextEngineIdle
    /\ ServicesIdle
    /\ StoreEmpty
    /\ template_call = NoCall
    /\ UsageIdle
    /\ validation = NoVerdict
    /\ metrics_call = NoUpdate
    /\ response \in ResponseSamples \cup {None}

NextResponse == ValidateResponse

SpecResponse == InitResponse /\ [][NextResponse]_vars

----------------------------------------------------------------------------
\* services/analyzer.py: the field combinators of update_context applied to
\* three Contexts a, b, c in different orders and groupings

\* the fields update_context combines, of three valid Contexts that share one
\* project and one relationship: the Context's topics and confidence_score,
\* the project's relevance_score and key_terms, the relationship's
\* interaction_frequency (multiples of 0.04, so that every mean is exact)
FieldSamples ==
    {[relevance_score |-> 40, confidence_score |-> 75, key_terms |-> <<1>>,
      topics |-> <<1>>, interaction_frequency |-> 20],
     [relevance_score |-> 80, confidence_score |-> 96, key_terms |-> <<2>>,
      topics |-> <<1, 2>>, interaction_frequency |-> 60],
     [relevance_score |-> 60, confidence_score |-> 85, key_terms |-> <<1, 3>>,
      topics |-> <<3>>, interaction_frequency |-> 100]}

\* the merges made: which two values are merged, existing one first, and the
\* name of the result
Groupings ==
    {[existing |-> "a", new |-> "b", as |-> "ab"],
     [existing |-> "b", new |-> "a", as |-> "ba"],
     [existing |-> "b", new |-> "c", as |-> "bc"],
     [existing |-> "ab", new |-> "c", as |-> "ab_c"],
     [existing |-> "a", new |-> "bc", as |-> "a_bc"]}

\* the fields of the Context of that name: an operand, or a merge made before
FieldsOf(name) ==
    IF name = "a" THEN operands[1]
    ELSE IF name = "b" THEN operands[2]
    ELSE IF name = "c" THEN operands[3]
    ELSE combined[name]

\* the fields update_context gives the merge of existing and new
CombineFields(existing, new) ==
    [relevance_score |-> MergedRelevance(existing.relevance_score, new.relevance_score),
     confidence_score |-> MergedConfidence(existing.confidence_score, new.confidence_score),
     key_terms |-> MergedKeyTerms(existing.key_terms, new.key_terms),
     topics |-> MergedTopics(existing.topics, new.topics),
     interaction_frequency |->
         MergedFrequency(existing.interaction_frequency, new.interaction_frequency)]

\* one merge of the table, once the values it merges exist
Combine(g) ==
    /\ operands # << >>
    /\ g.as \notin DOMAIN combined
    /\ g.existing \in {"a", "b", "c"} \cup DOMAIN combined
    /\ g.new \in {"a", "b", "c"} \cup DOMAIN combined
    /\ combined' = [n \in (DOMAIN combined) \cup {g.as} |->
                       IF n = g.as
                           THEN CombineFields(FieldsOf(g.existing), FieldsOf(g.new))
                           ELSE combined[n]]
    /\ UNCHANGED <<analyzer_vars, heap_vars, merge_vars, validate_vars,
                   generator_vars, operands, route_vars, processor_vars,
                   cache_vars>>

\* the fields of three Contexts, nothing merged yet
InitCombine ==
    /\ ContextEngineIdle
    /\ GeneratorIdle
    /\ RoutesIdle
    /\ ProcessorIdle
    /\ TextCacheIdle
    /\ operands \in [1..3 -> FieldSamples]
    /\ combined = << >>

NextCombine == \E g \in Groupings : Combine(g)

SpecCombine == InitCombine /\ [][NextCombine]_vars

----------------------------------------------------------------------------
\* api/routes.py: the handlers analyze_email_context and get_context

\* what a raise statement of a handler raises; every class here is a subclass
\* of Exception, and only ValueError is a ValueError
Raised(class, status, detail) == [class |-> class, status |-> status, detail |-> detail]

\* what the client gets
Reply(status, detail) == [status |-> status, detail |-> detail]

\* the except clauses shared by the handlers, tried in order on whatever the
\* try block raised, the handler's own HTTPException included:
\* except ValueError -> 422 with the message, except Exception -> 500
ExceptClauses(e) ==
    IF e.class = "ValueError" THEN Reply(422, e.detail)
    ELSE Reply(500, "Internal server error")

\* what context_analyzer.analyze_email gives the handler: a Context whose
\* confidence_score reached the analyzer's threshold, the ValueError of its
\* input check, or the RuntimeError of an exhausted retry budget
AnalyzeEmailOutcomes ==
    {[kind |-> "context", confidence_score |-> c] :
        c \in {MIN_CONFIDENCE_THRESHOLD, 94, 95, MAX_CONFIDENCE_SCORE}} \cup
    {[kind |-> "raise", class |-> "ValueError", detail |-> ErrInputs],
     [kind |-> "raise", class |-> "RuntimeError", detail |-> ErrAfterAttempts]}

\* the try block of analyze_email_context: what it raises, or "none"
AnalyzeEmailContextTry(o) ==
    IF o.kind = "raise" THEN Raised(o.class, 0, o.detail)
    ELSE IF o.confidence_score < ROUTES_CONFIDENCE_THRESHOLD
        THEN Raised("HTTPException", 422, "Analysis confidence below threshold")
    ELSE Raised("none", 0, "")

\* POST /analyze answered
AnalyzeEmailContext ==
    /\ Len(http_log) < MaxRequests
    /\ \E o \in AnalyzeEmailOutcomes :
        LET e == AnalyzeEmailContextTry(o)
        IN  http_log' = Append(http_log,
                [route |-> "analyze_email_context", given |-> o, raised |-> e,
                 reply |-> IF e.class = "none" THEN Reply(200, "context")
                           ELSE ExceptClauses(e)])
    /\ UNCHANGED <<analyzer_vars, heap_vars, merge_vars, validate_vars,
                   generator_vars, combine_vars, processor_vars, cache_vars>>

\* the context ids a client asks for: none, one that exists, one that does not
ContextIds == {"", "ctx-1", "ctx-9"}

\* what context_analyzer.get_context(context_id) gives the handler.
\* ContextAnalyzer defines no get_context, so on the analyzer of
\* services/analyzer.py the call raises AttributeError; on an analyzer that
\* has the method the handler expects, it returns the Context or None
GetContextOutcomes(context_id) ==
    {[kind |-> "raise", class |-> "AttributeError", detail |-> "get_context"],
     IF context_id = "ctx-1" THEN [kind |-> "context", detail |-> "ctx-1"]
     ELSE [kind |-> "missing", detail |-> ""]}

\* the try block of get_context: what it raises, or "none"
GetContextTry(context_id, o) ==
    IF context_id = "" THEN Raised("ValueError", 0, "Context ID cannot be empty")
    ELSE IF o.kind = "raise" THEN Raised(o.class, 0, o.detail)
    ELSE IF o.kind = "missing" THEN Raised("HTTPException", 404, "Context not found")
    ELSE Raised("none", 0, "")

\* GET /{context_id} answered
GetContext ==
    /\ Len(http_log) < MaxRequests
    /\ \E context_id \in ContextIds :
       \E o \in GetContextOutcomes(context_id) :
        LET e == GetContextTry(context_id, o)
        IN  http_log' = Append(http_log,
                [route |-> "get_context", given |-> o, raised |-> e,
                 reply |-> IF e.class = "none" THEN Reply(200, "context")
                           ELSE ExceptClauses(e)])
    /\ UNCHANGED <<analyzer_vars, heap_vars, merge_vars, validate_vars,
                   generator_vars, combine_vars, processor_vars, cache_vars>>

\* the service has answered no request
InitRoutes ==
    /\ ContextEngineIdle
    /\ GeneratorIdle
    /\ CombineIdle
    /\ ProcessorIdle
    /\ TextCacheIdle
    /\ http_log = << >>

NextRoutes ==
    \/ AnalyzeEmailContext
    \/ GetContext

SpecRoutes == InitRoutes /\ [][NextRoutes]_vars

----------------------------------------------------------------------------
\* services/nlp_processor.py: process_email_content behind analyze_email

\* the contents analysed.  The TextAnalyzer is deterministic, so the content
\* fixes the confidence_score of analyze_semantic_structure: far below the
\* processor's threshold, below it and at it
ProcessorContents == {"weak", "good", "strong"}

\* semantic_analysis['confidence_score'] of the content, in hundredths
SemanticConfidence(content) ==
    CASE content = "weak"   -> 50
      [] content = "good"   -> 80
      [] content = "strong" -> NLP_CONFIDENCE_THRESHOLD

\* min(analysis['confidence_score'] * 1.2, self._confidence_threshold)
BoostedConfidence(raw) == Min((raw * 12) \div 10, NLP_CONFIDENCE_THRESHOLD)

\* mutant of EnhanceAnalysisQuality: the enhanced analysis wrapped in a
\* dictionary that has the keys of the regular result
EnhanceAnalysisQuality_Wrapped(raw, entities) ==
    [kind |-> "content", confidence_score |-> BoostedConfidence(raw),
     shape |-> IF entities THEN "nlp" ELSE "unhashable"]

\* _enhance_analysis_quality: a copy of the analysis itself, with the boosted
\* confidence_score and without a 'semantic_analysis' key
EnhanceAnalysisQuality(raw, entities) ==
    [kind |-> "content", confidence_score |-> BoostedConfidence(raw),
     shape |-> "no_analysis"]

\* cache_key in self._cache and time.time() - timestamp < CACHE_TTL
CacheHit(cache, content, now) ==
    content \in DOMAIN cache /\ now - cache[content] < NLP_CACHE_TTL

\* process_email_content(content) with the cache and the time given: the
\* dictionary returned (or the raise) and the cache afterwards.  fails: the
\* tokenizer or the model raises; entities: extract_entities, called later
\* with the list main_topics, returns (a TextAnalyzer put in place of the one
\* of text_processor.py, whose hash(text) raises TypeError on a list)
ProcessEmailContent(content, cache, now, fails, entities) ==
    IF CacheHit(cache, content, now)
        THEN [o |-> [kind |-> "cache_hit"], cache |-> cache]
    ELSE IF fails
        THEN [o |-> [kind |-> "raise"], cache |-> cache]
    ELSE IF SemanticConfidence(content) < NLP_CONFIDENCE_THRESHOLD
        THEN [o |-> EnhanceAnalysisQuality(SemanticConfidence(content), entities),
              cache |-> cache]
    ELSE [o |-> [kind |-> "content",
                 confidence_score |-> SemanticConfidence(content),
                 shape |-> IF entities THEN "nlp" ELSE "unhashable"],
          cache |-> Store(cache, content, now)]

\* what the log keeps of one call of process_email_content by task i: the
\* confidence_score of the semantic analysis (none on a cache hit or a raise),
\* the one the dictionary reports (none likewise), and how the attempt ended
Processed(i, content, cache, now, o) ==
    [content |-> content,
     cache_hit |-> CacheHit(cache, content, now),
     raw |-> IF o.kind = "content" THEN <<SemanticConfidence(content)>> ELSE << >>,
     reported |-> IF o.kind = "content" THEN <<o.confidence_score>> ELSE << >>,
     has_analysis |-> o.kind = "content" /\ o.shape # "no_analysis",
     outcome |-> outcomes'[i][Len(outcomes'[i])],
     caught |-> IF outcomes'[i][Len(outcomes'[i])] = "error"
                   THEN raised_from'[i].caught ELSE "none"]

\* one iteration of the retry loop of task i with the NLPProcessor of
\* nlp_processor.py as the extractor
ProcessorAttempt(i) ==
    /\ \E fails \in BOOLEAN, entities \in BOOLEAN :
        LET content == email_batch[i].content
            p == ProcessEmailContent(content, nlp_cache, clock, fails, entities)
        IN  /\ AttemptStep(i, p.o)
            /\ nlp_cache' = p.cache
            /\ processed' = [processed EXCEPT ![i] =
                   Append(@, Processed(i, content, nlp_cache, clock, p.o))]
    /\ UNCHANGED <<clock, combine_vars, route_vars, cache_vars>>

\* time passes
Tick ==
    /\ clock < MaxClock
    /\ clock' = clock + 1
    /\ UNCHANGED <<analyzer_vars, heap_vars, merge_vars, validate_vars,
                   generator_vars, combine_vars, route_vars, nlp_cache, processed,
                   cache_vars>>

\* the emails sent in: well-formed ones of every content
ProcessorEmails ==
    {[email_id |-> "mail-1", content |-> c, thread_id |-> "th-1"] :
        c \in ProcessorContents}

\* analyze_batch called on one or more emails with a new NLPProcessor
InitProcessor ==
    /\ \E batch \in UNION {[1..k -> ProcessorEmails] : k \in 1..MaxBatch} :
        /\ email_batch = batch
        /\ pc = [i \in DOMAIN batch |-> "new"]
        /\ retry_count = [i \in DOMAIN batch |-> 0]
        /\ context = [i \in DOMAIN batch |-> None]
        /\ result = [i \in DOMAIN batch |-> None]
        /\ error = [i \in DOMAIN batch |-> "none"]
        /\ calls = [i \in DOMAIN batch |-> 0]
        /\ slept = [i \in DOMAIN batch |-> 0]
        /\ outcomes = [i \in DOMAIN batch |-> << >>]
        /\ raised_from = [i \in DOMAIN batch |-> NothingCaught]
        /\ processed = [i \in DOMAIN batch |-> << >>]
    /\ batch_pc = "called"
    /\ slice = 0
    /\ results = << >>
    /\ failure_log = << >>
    /\ pobj = << >>
    /\ robj = << >>
    /\ MergeIdle
    /\ ValidateIdle
    /\ GeneratorIdle
    /\ CombineIdle
    /\ RoutesIdle
    /\ TextCacheIdle
    /\ nlp_cache = << >>
    /\ clock = 0

NextProcessor ==
    \/ AnalyzeBatch
    \/ \E i \in DOMAIN email_batch : StartTask(i)
    \/ \E i \in DOMAIN email_batch : ProcessorAttempt(i)
    \/ \E i \in DOMAIN email_batch : Wake(i)
    \/ Gather
    \/ Tick

SpecProcessor == InitProcessor /\ [][NextProcessor]_vars

----------------------------------------------------------------------------
\* utils/text_processor.py: the result cache of TextAnalyzer

\* the methods that use the cache, as the prefixes of their cache keys
CachedMethods == {"entities", "keywords", "semantic"}

\* cache_key: the method's prefix and hash(text); the other arguments that
\* enter the key (top_n, use_phrases, include_dependencies) are kept fixed
CacheKey(method, text) == [method |-> method, text |-> text]

\* the texts analysed: the two analysed first, and two not seen before
CacheTexts == {1, 2, CACHE_MAX_SIZE + 1, CACHE_MAX_SIZE + 2}

\* mutant of Popitem: popitem(), which removes the entry inserted last
Popitem_Last(cache) == SubSeq(cache, 1, Len(cache) - 1)

\* self._cache.popitem(last=False): the entry inserted first is removed
Popitem(cache) == Tail(cache)

\* self._cache[cache_key] = value for a key not in the cache, followed by
\* if len(self._cache) > CACHE_MAX_SIZE: self._cache.popitem(last=False)
UpdateCache(cache, key) ==
    LET inserted == Append(cache, key)
    IN  IF Len(inserted) > CACHE_MAX_SIZE THEN Popitem(inserted) ELSE inserted

\* extract_entities, extract_keywords or analyze_semantic_structure called on
\* a text: a key in the cache is answered from it, which leaves the
\* OrderedDict as it is; any other result is computed and cached
TextAnalyzerCall(method, text) ==
    /\ Len(cache_calls) < MaxCacheCalls
    /\ cache_calls' = Append(cache_calls,
                             [key |-> CacheKey(method, text),
                              hit |-> CacheKey(method, text) \in Range(text_cache)])
    /\ text_cache' = IF CacheKey(method, text) \in Range(text_cache)
                        THEN text_cache
                        ELSE UpdateCache(text_cache, CacheKey(method, text))
    /\ UNCHANGED <<analyzer_vars, heap_vars, merge_vars, validate_vars,
                   generator_vars, combine_vars, route_vars, processor_vars>>

\* a TextAnalyzer (enable_cache=True) that has analysed the semantic
\* structure of n different texts so far: none, or enough to leave the cache
\* one short of full or full
InitTextCache ==
    /\ ContextEngineIdle
    /\ GeneratorIdle
    /\ CombineIdle
    /\ RoutesIdle
    /\ ProcessorIdle
    /\ \E n \in {0, CACHE_MAX_SIZE - 1, CACHE_MAX_SIZE} :
          text_cache = [k \in 1..n |-> CacheKey("semantic", k)]
    /\ cache_calls = << >>

NextTextCache ==
    \E method \in CachedMethods, text \in CacheTexts : TextAnalyzerCall(method, text)

SpecTextCache == InitTextCache /\ [][NextTextCache]_vars

----------------------------------------------------------------------------
\* services/template_manager.py: track_template_usage on a store whose
\* commands can fail

\* track_template_usage is called and its first store command, hincrby,
\* raises: the except branch returns False
TrackTemplateUsageFails ==
    /\ NoCallRunning
    /\ Len(usage_pc) < MaxUsage
    /\ \E template_id \in UsedTemplateIds, usage_data \in UsageData :
        usage_local' =
            Append(usage_local,
                   [template_id |-> template_id, usage_data |-> usage_data,
                    usage_count |-> 0,
                    success_rate |-> << >>, template_data |-> << >>,
                    before |-> HashOf(redis_analytics, template_id)])
    /\ usage_pc' = Append(usage_pc, "failed")
    /\ UNCHANGED <<analyzer_vars, heap_vars, merge_vars, validate_vars, service_vars,
                   store_vars, template_call, response_vars>>

\* the store command call t is about to send (hget, hmset, get or set)
\* raises: the except branch returns False
StoreCommandFails(t) ==
    /\ usage_pc[t] \in {"hget", "hmset", "get", "set"}
    /\ usage_pc' = [usage_pc EXCEPT ![t] = "failed"]
    /\ UNCHANGED <<analyzer_vars, heap_vars, merge_vars, validate_vars, service_vars,
                   store_vars, template_call, usage_local, response_vars>>

\* hgetall raises inside _cleanup_old_analytics, whose own except branch logs
\* a warning: track_template_usage returns True
CleanupFails(t) ==
    /\ usage_pc[t] = "cleanup"
    /\ usage_pc' = [usage_pc EXCEPT ![t] = "returned"]
    /\ UNCHANGED <<analyzer_vars, heap_vars, merge_vars, validate_vars, service_vars,
                   store_vars, template_call, usage_local, response_vars>>

\* calls made one after the other on a store whose commands can fail
NextUsageFail ==
    \/ TrackTemplateUsageNext
    \/ TrackTemplateUsageFails
    \/ \E t \in UsageTasks : HgetSuccessRate(t)
    \/ \E t \in UsageTasks : HmsetUsageMetrics(t)
    \/ \E t \in UsageTasks : GetTemplateData(t)
    \/ \E t \in UsageTasks : SetTemplateData(t)
    \/ \E t \in UsageTasks : CleanupOldAnalytics(t)
    \/ \E t \in UsageTasks : StoreCommandFails(t)
    \/ \E t \in UsageTasks : CleanupFails(t)

SpecUsageFail == InitUsage /\ [][NextUsageFail]_vars

----------------------------------------------------------------------------
\* models/response.py: validate_content and update_learning_metrics called
\* on one Response in any order

\* the keys and values of the dictionaries passed to update_learning_metrics
MetricKeys == {"accuracy", "user_rating"}

MetricValues == {Float(0), Float(100), Float(250), Float(0 - 50), Str}

NewMetrics == UNION {[keys -> MetricValues] : keys \in SUBSET MetricKeys}

\* _validate_metrics_format raises nothing: every value is a number
MetricsFormatValid(metrics) == \A key \in DOMAIN metrics : IsNumeric(metrics[key])

\* the sum of the numeric values of a dictionary
RECURSIVE SumOfScores(_, _)
SumOfScores(metrics, keys) ==
    IF keys = {} THEN 0
    ELSE LET key == CHOOSE k \in keys : TRUE
         IN  (IF IsNumeric(metrics[key]) THEN metrics[key].value ELSE 0)
                 + SumOfScores(metrics, keys \ {key})

\* _calculate_aggregate_scores: the sum of the numeric values over the number
\* of all entries (hundredths, rounded down); nothing for an empty dictionary
CalculateAggregateScores(r) ==
    IF DOMAIN r.learning_metrics = {} THEN r
    ELSE [r EXCEPT !.confidence_score =
             SumOfScores(r.learning_metrics, DOMAIN r.learning_metrics)
                 \div Cardinality(DOMAIN r.learning_metrics)]

\* response.validate_content()
ValidateContent ==
    /\ response # None
    /\ response' = AfterValidateContent(response)
    /\ UNCHANGED <<analyzer_vars, heap_vars, merge_vars, validate_vars, service_vars,
                   store_vars, template_call, usage_vars, validation, metrics_call>>

\* response.update_learning_metrics(new_metrics): False from the except
\* branch when a value is not a number, else the dictionary is merged and
\* confidence_score recomputed
UpdateLearningMetrics ==
    /\ response # None
    /\ metrics_call.n < MaxUpdates
    /\ \E new_metrics \in NewMetrics :
        /\ metrics_call' = [n |-> metrics_call.n + 1, new_metrics |-> new_metrics,
                            returned |-> MetricsFormatValid(new_metrics)]
        /\ response' =
               IF MetricsFormatValid(new_metrics)
                   THEN CalculateAggregateScores(
                            [response EXCEPT !.learning_metrics = new_metrics @@ @])
                   ELSE response
    /\ UNCHANGED <<analyzer_vars, heap_vars, merge_vars, validate_vars, service_vars,
                   store_vars, template_call, usage_vars, validation>>

\* Responses as constructed: confidence_score within the bounds of its Field
LearningSamples ==
    [content : {c \in ResponseContents : c.size = 200 /\ c.lines = 3 /\ c.words = {}},
     tone : {"TONE_PROFESSIONAL"}, confidence_score : {0, 85},
     validation_results : {<< >>}, learning_metrics : {<< >>}]

InitLearning ==
    /\ ContextEngineIdle
    /\ ServicesIdle
    /\ StoreEmpty
    /\ template_call = NoCall
    /\ UsageIdle
    /\ validation = NoVerdict
    /\ metrics_call = NoUpdate
    /\ response \in LearningSamples

NextLearning == ValidateContent \/ UpdateLearningMetrics

SpecLearning == InitLearning /\ [][NextLearning]_vars

----------------------------------------------------------------------------
\* services/analyzer.py: analyze_email on an event loop that runs every task
\* that can run, with an extractor and a delay that return

\* analyze_batch goes on, each created task is started, each awaited
\* process_email_content and each asyncio.sleep returns
AnalyzerFairness ==
    /\ WF_vars(AnalyzeBatch)
    /\ WF_vars(Gather)
    /\ \A i \in 1..MaxBatch :
        /\ WF_vars(i \in DOMAIN email_batch /\ StartTask(i))
        /\ WF_vars(i \in DOMAIN email_batch /\ Attempt(i))
        /\ WF_vars(i \in DOMAIN email_batch /\ Wake(i))

SpecLive == Init /\ [][Next]_vars /\ AnalyzerFairness

----------------------------------------------------------------------------
\* Properties of analyze_email and analyze_batch

Tasks == DOMAIN email_batch

Ended(i) == pc[i] \in {"returned", "raised"}

\* every call the extractor answered so far had a confidence below the threshold
AllLow(i) == \A k \in DOMAIN outcomes[i] : outcomes[i][k] = "low"

\* seconds since task i started its loop: its extractor calls and its delays
Elapsed(i) == calls[i] * CallSeconds + slept[i] * RETRY_DELAY

\* C1 (retry ceiling): while every extractor call of a request answers with a
\* confidence below the threshold, the request goes on calling until it has
\* made exactly MAX_RETRIES calls; it then, and only then, ends, raising the
\* error of the unreached confidence threshold, and it returns no Context.
C1_RetryCeiling ==
    \A i \in Tasks :
        (pc[i] # "new" /\ InputsProvided(email_batch[i]) /\ AllLow(i)) =>
            /\ result[i] = None
            /\ calls[i] <= MAX_RETRIES
            /\ calls[i] < MAX_RETRIES => pc[i] = "call" /\ error[i] = "none"
            /\ calls[i] = MAX_RETRIES => pc[i] = "raised" /\ error[i] = ErrConfidence

C1_Witness ==
    \E i \in Tasks :
        /\ outcomes[i] = <<"low", "low", "low">>
        /\ calls[i] = MAX_RETRIES
        /\ pc[i] = "raised"
        /\ error[i] = ErrConfidence

\* C2: a Context analyze_email returned has a confidence_score at or above
\* MIN_CONFIDENCE_THRESHOLD and passes Context.validate, whatever outcomes the
\* attempts before it had; and a request returns a Context exactly when it
\* ended without raising.
C2_ReturnedContextAccepted ==
    \A i \in Tasks :
        /\ (pc[i] = "returned") <=> (result[i] # None)
        /\ result[i] # None =>
              /\ result[i].confidence_score >= MIN_CONFIDENCE_THRESHOLD
              /\ ContextValidate(result[i], pobj, robj) = "ok"
              /\ error[i] = "none"

C2_Witness ==
    \E i \in Tasks :
        /\ outcomes[i] = <<"low", "error", "accepted">>
        /\ result[i] # None
        /\ result[i].confidence_score = MIN_CONFIDENCE_THRESHOLD

\* C3: errors and low confidences draw on one budget.  A request makes at
\* most MAX_RETRIES extractor calls; each attempt that is not accepted
\* counts once; the request returns exactly when its latest attempt is the
\* first accepted one, after as many calls as attempts, with the Context of
\* that attempt; it goes on while no attempt was accepted and fewer than
\* MAX_RETRIES calls were made; otherwise it has raised.
C3_SharedRetryBudget ==
    \A i \in Tasks :
        LET n == Len(outcomes[i])
        IN  /\ calls[i] = n
            /\ calls[i] <= MAX_RETRIES
            /\ \A k \in 1..n : outcomes[i][k] = "accepted" => k = n
            /\ retry_count[i] = Cardinality({k \in 1..n : outcomes[i][k] # "accepted"})
            /\ (pc[i] = "returned") <=> (n > 0 /\ outcomes[i][n] = "accepted")
            /\ pc[i] = "returned" => result[i] = context[i] /\ result[i] # None
            /\ (pc[i] \in {"call", "sleeping"}) => retry_count[i] < MAX_RETRIES
            /\ (pc[i] = "raised" /\ InputsProvided(email_batch[i])) =>
                  /\ calls[i] = MAX_RETRIES
                  /\ error[i] \in {ErrAfterAttempts, ErrConfidence}

C3_Witness ==
    \E i \in Tasks :
        /\ outcomes[i] = <<"error", "error", "accepted">>
        /\ calls[i] = 3
        /\ slept[i] = 2
        /\ pc[i] = "returned"

\* C4 as claimed: every extractor call of a request after its first comes
\* after a delay of its own, also when the attempt before it ended with a
\* low confidence.
C4_DelayBeforeEveryRetry ==
    \A i \in Tasks : calls[i] >= 1 => slept[i] >= calls[i] - 1

\* C5 as claimed: once a request has run for longer than the deadline it
\* starts no further attempt.
C5_DeadlineRespected ==
    [][\A i \in Tasks :
          Elapsed(i) > MAX_REQUEST_TIMEOUT => calls'[i] = calls[i]]_vars

RECURSIVE SucceededUpTo(_)
\* the Contexts of the emails 1..n whose own analyze_email returned, in order
SucceededUpTo(n) ==
    IF n = 0 THEN << >>
    ELSE IF pc[n] = "returned" THEN Append(SucceededUpTo(n - 1), result[n])
    ELSE SucceededUpTo(n - 1)

\* C6 (batch isolation): a batch that was not empty never raises; while it
\* runs, every task that has not ended can take its next step whatever its
\* siblings did; and the contexts analyze_batch returns are exactly those of
\* the emails whose own analyze_email returned, in the order of the batch.
C6_BatchIsolation ==
    /\ (batch_pc = "raised") => Len(email_batch) = 0
    /\ batch_pc = "running" =>
          \A i \in Tasks :
              ~Ended(i) => ENABLED (StartTask(i) \/ Attempt(i) \/ Wake(i))
    /\ batch_pc = "returned" =>
          /\ \A i \in Tasks : Ended(i)
          /\ results = SucceededUpTo(Len(email_batch))

C6_Witness ==
    /\ batch_pc = "returned"
    /\ Len(email_batch) = 2
    /\ pc[1] = "raised"
    /\ error[1] = ErrAfterAttempts
    /\ pc[2] = "returned"
    /\ results = <<result[2]>>

\* the entries of the value analyze_batch returned that are failure entries
ReturnedFailures == SelectSeq(results, LAMBDA e : "reason" \in DOMAIN e)

\* C7 as claimed: the value analyze_batch returns holds, besides the
\* succeeded contexts, one failure entry per failed email with its email_id
\* and its reason, so that both together count the emails of the batch.
C7_FailuresReturned ==
    batch_pc = "returned" =>
        /\ \A i \in Tasks :
              pc[i] = "raised" =>
                  \E k \in DOMAIN ReturnedFailures :
                      /\ ReturnedFailures[k].email_id = email_batch[i].email_id
                      /\ ReturnedFailures[k].reason = error[i]
        /\ Len(results) = Len(email_batch)

\* C20 (metadata of an extracted Context): every Context that
\* extract_semantic_context built for a request has the metadata keys source,
\* version and timestamp.
C20_ExtractedMetadataComplete ==
    \A i \in Tasks :
        context[i] # None =>
            \A k \in DOMAIN REQUIRED_METADATA_FIELDS :
                REQUIRED_METADATA_FIELDS[k] \in DOMAIN context[i].metadata

\* C21 (the builder yields a validated Context): a Context that
\* extract_semantic_context built from a dictionary with a confidence score and
\* topics, completed with a well-formed email_id and the thread_id of the
\* request, passes Context.validate.
C21_BuiltContextValid ==
    \A i \in Tasks :
        (/\ context[i] # None
         /\ context[i].metadata = SemanticMetadata
         /\ IsUUID(email_batch[i].email_id))
            => ContextValidate(context[i], pobj, robj) = "ok"

----------------------------------------------------------------------------
\* Properties of update_context

\* the project_ids (person_ids) of a Context, with the instances as in heap P (R)
ProjectIdSet(c, P) == {P[a].project_id : a \in Range(c.project_contexts)}

PersonIdSet(c, R) == {R[a].person_id : a \in Range(c.relationship_contexts)}

\* the data model's key invariant: within the Context no project_id and no
\* person_id occurs twice
UniqueKeys(c, P, R) ==
    /\ \A j, k \in DOMAIN c.project_contexts :
          P[c.project_contexts[j]].project_id = P[c.project_contexts[k]].project_id
              => j = k
    /\ \A j, k \in DOMAIN c.relationship_contexts :
          R[c.relationship_contexts[j]].person_id = R[c.relationship_contexts[k]].person_id
              => j = k

\* the instance of Context c that has the given id
ProjectOf(c, P, id) ==
    P[CHOOSE a \in Range(c.project_contexts) : P[a].project_id = id]

RelationshipOf(c, R, id) ==
    R[CHOOSE a \in Range(c.relationship_contexts) : R[a].person_id = id]

\* a Context's projects as a map: project_id, relevance_score, set of key_terms
ProjectMap(c, P) ==
    {[project_id |-> P[a].project_id,
      relevance_score |-> P[a].relevance_score,
      key_terms |-> Range(P[a].key_terms)] : a \in Range(c.project_contexts)}

\* a Context's relationships as a map: person_id, frequency, last interaction
RelationshipMap(c, R) ==
    {[person_id |-> R[a].person_id,
      interaction_frequency |-> R[a].interaction_frequency,
      last_interaction |-> R[a].last_interaction] : a \in Range(c.relationship_contexts)}

\* update_context was called with both arguments valid and keyed uniquely
MergeOfKeyedInputs ==
    /\ merge_pc # "idle"
    /\ ContextValidate(existing_context, pobj0, robj0) = "ok"
    /\ ContextValidate(new_context, pobj0, robj0) = "ok"
    /\ UniqueKeys(existing_context, pobj0, robj0)
    /\ UniqueKeys(new_context, pobj0, robj0)

\* C8 (idempotent merge): for a valid Context c whose project_ids and
\* person_ids key its lists (the data model's invariant), update_context(c, c)
\* returns a Context with c's confidence_score, c's topics as a set, and c's
\* project and relationship maps as they were when the call was made.
C8_IdempotentMerge ==
    (MergeOfKeyedInputs /\ merge_pc # "called" /\ new_context = existing_context) =>
        /\ merge_pc = "returned"
        /\ merged.confidence_score = existing_context.confidence_score
        /\ Range(merged.topics) = Range(existing_context.topics)
        /\ ProjectMap(merged, pobj) = ProjectMap(existing_context, pobj0)
        /\ RelationshipMap(merged, robj) = RelationshipMap(existing_context, robj0)
        /\ Len(merged.project_contexts) = Len(existing_context.project_contexts)
        /\ Len(merged.relationship_contexts) = Len(existing_context.relationship_contexts)

C8_Witness ==
    /\ merge_pc = "returned"
    /\ new_context = existing_context
    /\ UniqueKeys(existing_context, pobj0, robj0)
    /\ Len(existing_context.project_contexts) = 2
    /\ Len(existing_context.relationship_contexts) = 2
    /\ \E a \in Range(existing_context.relationship_contexts) :
          robj0[a].interaction_frequency = 60
    /\ merged.topics # existing_context.topics

\* C9 (project merge rule): when update_context returns, the project_ids of
\* the result are those of either input, once each; and, the inputs being
\* keyed uniquely, a project of both inputs has the larger relevance_score
\* and the union of the key_terms, a project of one input has all the fields
\* it had in that input.
C9_ProjectMergeRule ==
    merge_pc = "returned" =>
        /\ ProjectIdSet(merged, pobj) =
              ProjectIdSet(existing_context, pobj0) \cup ProjectIdSet(new_context, pobj0)
        /\ Len(merged.project_contexts) = Cardinality(ProjectIdSet(merged, pobj))
        /\ MergeOfKeyedInputs =>
              \A id \in ProjectIdSet(merged, pobj) :
                  LET inEx  == id \in ProjectIdSet(existing_context, pobj0)
                      inNew == id \in ProjectIdSet(new_context, pobj0)
                      m == ProjectOf(merged, pobj, id)
                      e == ProjectOf(existing_context, pobj0, id)
                      n == ProjectOf(new_context, pobj0, id)
                  IN  /\ (inEx /\ inNew) =>
                            /\ m.relevance_score >= e.relevance_score
                            /\ m.relevance_score >= n.relevance_score
                            /\ m.relevance_score \in {e.relevance_score, n.relevance_score}
                            /\ Range(m.key_terms) = Range(e.key_terms) \cup Range(n.key_terms)
                      /\ (inEx /\ ~inNew) => m = e
                      /\ (inNew /\ ~inEx) => m = n

C9_Witness ==
    /\ merge_pc = "returned"
    /\ MergeOfKeyedInputs
    /\ Len(existing_context.project_contexts) = 2
    /\ Len(new_context.project_contexts) = 1
    /\ ProjectOf(existing_context, pobj0, "p1").relevance_score = 80
    /\ ProjectOf(new_context, pobj0, "p1").relevance_score = 96
    /\ ProjectOf(merged, pobj, "p1").relevance_score = 96
    /\ Range(ProjectOf(merged, pobj, "p1").key_terms) = {1, 2}
    /\ ProjectOf(merged, pobj, "p2") = ProjectOf(existing_context, pobj0, "p2")

\* C10 (relationship merge rule): when update_context returns on inputs
\* keyed uniquely, a relationship of both inputs has the arithmetic mean of
\* the two interaction frequencies and the later of the two last
\* interactions, a relationship of one input has all the fields it had there.
C10_RelationshipMergeRule ==
    (merge_pc = "returned" /\ MergeOfKeyedInputs) =>
        \A id \in PersonIdSet(merged, robj) :
            LET inEx  == id \in PersonIdSet(existing_context, robj0)
                inNew == id \in PersonIdSet(new_context, robj0)
                m == RelationshipOf(merged, robj, id)
                e == RelationshipOf(existing_context, robj0, id)
                n == RelationshipOf(new_context, robj0, id)
            IN  /\ (inEx /\ inNew) =>
                      /\ 2 * m.interaction_frequency =
                            e.interaction_frequency + n.interaction_frequency
                      /\ m.last_interaction >= e.last_interaction
                      /\ m.last_interaction >= n.last_interaction
                      /\ m.last_interaction \in {e.last_interaction, n.last_interaction}
                /\ (inEx /\ ~inNew) => m = e
                /\ (inNew /\ ~inEx) => m = n

C10_Witness ==
    /\ merge_pc = "returned"
    /\ MergeOfKeyedInputs
    /\ Len(existing_context.relationship_contexts) = 1
    /\ Len(new_context.relationship_contexts) = 2
    /\ RelationshipOf(existing_context, robj0, "r1").interaction_frequency = 60
    /\ RelationshipOf(new_context, robj0, "r1").interaction_frequency = 20
    /\ RelationshipOf(merged, robj, "r1").interaction_frequency = 40
    /\ RelationshipOf(merged, robj, "r1").last_interaction = 2
    /\ RelationshipOf(merged, robj, "r2") = RelationshipOf(new_context, robj0, "r2")

----------------------------------------------------------------------------
\* Properties of successive merges

\* the k-th call of update_context returned a Context
Returned(k) == history[k].outcome = "returned"

\* the arguments of the k-th call passed validate when the call was made
ValidInputs(k) ==
    /\ ContextValidate(history[k].existing, history[k].pobj0, history[k].robj0) = "ok"
    /\ ContextValidate(history[k].new, history[k].pobj0, history[k].robj0) = "ok"

\* C11 (topics union, commutative in effect): the topics of a Context that
\* update_context returns are, as a set, the union of the two inputs' topics;
\* and when update_context(a, b) and update_context(b, a) both return, their
\* topics are equal as sets.
C11_TopicsUnionCommutes ==
    \A j \in DOMAIN history :
        Returned(j) =>
            /\ Range(history[j].merged.topics) =
                  Range(history[j].existing.topics) \cup Range(history[j].new.topics)
            /\ \A k \in DOMAIN history :
                  (/\ Returned(k)
                   /\ history[k].existing = history[j].new
                   /\ history[k].new = history[j].existing)
                      => Range(history[k].merged.topics) = Range(history[j].merged.topics)

C11_Witness ==
    \E j, k \in DOMAIN history :
        /\ j < k
        /\ Returned(j)
        /\ Returned(k)
        /\ history[k].existing = history[j].new
        /\ history[k].new = history[j].existing
        /\ Range(history[j].existing.topics) = {1, 2}
        /\ Range(history[j].new.topics) = {2, 3}
        /\ Range(history[k].merged.topics) = {1, 2, 3}

\* C12 (identity kept, time moves forward): a Context that update_context
\* returns has the context_id, email_id and thread_id of the existing Context
\* and the analyzed_at of the incoming one, and its analyzed_at is not earlier
\* than that of the existing Context it was merged into.
C12_IdentityKeptTimeForward ==
    \A k \in DOMAIN history :
        Returned(k) =>
            /\ history[k].merged.context_id = history[k].existing.context_id
            /\ history[k].merged.email_id = history[k].existing.email_id
            /\ history[k].merged.thread_id = history[k].existing.thread_id
            /\ history[k].merged.analyzed_at = history[k].new.analyzed_at
            /\ history[k].merged.analyzed_at >= history[k].existing.analyzed_at

RECURSIVE MergesInto(_)
\* the number of successive merges that led to the result of the k-th call,
\* counted from a Context without update_count (0 if it did not start there)
MergesInto(k) ==
    IF ~Returned(k) THEN 0
    ELSE IF "update_count" \notin DOMAIN history[k].existing.metadata THEN 1
    ELSE IF \E j \in 1..(k - 1) :
                /\ Returned(j)
                /\ history[j].merged = history[k].existing
                /\ MergesInto(j) > 0
        THEN 1 + MergesInto(CHOOSE j \in 1..(k - 1) :
                                /\ Returned(j)
                                /\ history[j].merged = history[k].existing
                                /\ MergesInto(j) > 0)
    ELSE 0

\* C13 (metadata union, update_count): the metadata of a Context that
\* update_context returns has the keys of both inputs and update_count; a key
\* other than update_count has the incoming value if the incoming metadata
\* has the key, else the existing value; update_count is the existing count
\* (0 if absent) plus 1, whatever the incoming metadata holds; so after n
\* successive merges into a Context that had no update_count it is n.
C13_MetadataUnionAndCount ==
    \A k \in DOMAIN history :
        Returned(k) =>
            LET emd == history[k].existing.metadata
                nmd == history[k].new.metadata
                md  == history[k].merged.metadata
            IN  /\ DOMAIN md = (DOMAIN emd) \cup (DOMAIN nmd) \cup {"update_count"}
                /\ \A key \in (DOMAIN md) \ {"update_count"} :
                      md[key] = IF key \in DOMAIN nmd THEN nmd[key] ELSE emd[key]
                /\ IsDecimal(md["update_count"])
                /\ ParseInt(md["update_count"]) =
                      1 + (IF "update_count" \in DOMAIN emd
                              THEN ParseInt(emd["update_count"]) ELSE 0)
                /\ MergesInto(k) > 0 => ParseInt(md["update_count"]) = MergesInto(k)

C13_Witness ==
    \E j, k \in DOMAIN history :
        /\ j < k
        /\ Returned(j)
        /\ Returned(k)
        /\ history[k].existing = history[j].merged
        /\ "update_count" \notin DOMAIN history[j].existing.metadata
        /\ history[j].new.metadata["source"] = "import"
        /\ history[j].new.metadata["update_count"] = "3"
        /\ history[j].merged.metadata["source"] = "import"
        /\ history[j].merged.metadata["update_count"] = "1"
        /\ history[k].merged.metadata["update_count"] = "2"

\* C14 (confidence is the maximum): the confidence_score of a Context that
\* update_context returns is the larger of the two inputs' scores, so it is
\* not below the score of the existing Context it was merged into, and it
\* lies within [0, 1].
C14_ConfidenceIsMax ==
    \A k \in DOMAIN history :
        Returned(k) =>
            /\ history[k].merged.confidence_score >= history[k].existing.confidence_score
            /\ history[k].merged.confidence_score >= history[k].new.confidence_score
            /\ history[k].merged.confidence_score \in
                  {history[k].existing.confidence_score, history[k].new.confidence_score}
            /\ ConfidenceInRange(history[k].merged.confidence_score)

C14_Witness ==
    \E j, k \in DOMAIN history :
        /\ j < k
        /\ Returned(j)
        /\ Returned(k)
        /\ history[k].existing = history[j].merged
        /\ history[j].existing.confidence_score = 75
        /\ history[j].merged.confidence_score = 96
        /\ history[k].new.confidence_score = 75
        /\ history[k].merged.confidence_score = 96

\* C15 (merge precondition): when an argument of update_context does not pass
\* validate, the call raises ValueError, returns no Context, and the nested
\* instances are as they were when the call was made (no merge step ran).
C15_InvalidInputRejected ==
    \A k \in DOMAIN history :
        ~ValidInputs(k) =>
            /\ history[k].outcome = "raised"
            /\ history[k].error.type = "ValueError"
            /\ history[k].merged = None
            /\ history[k].pobj = history[k].pobj0
            /\ history[k].robj = history[k].robj0

C15_Witness ==
    \E k \in DOMAIN history :
        /\ ContextValidate(history[k].existing, history[k].pobj0, history[k].robj0) = "ok"
        /\ history[k].new.analyzed_at = MaxTime
        /\ Len(history[k].existing.project_contexts) = 1
        /\ Len(history[k].new.project_contexts) = 2
        /\ history[k].error =
              [type |-> "ValueError",
               message |-> "Analysis timestamp cannot be in the future",
               cause |-> "none"]

\* the topics of the two arguments of the k-th call, taken together, are too many
TopicsOverflow(k) ==
    Cardinality(Range(history[k].existing.topics) \cup Range(history[k].new.topics))
        > MAX_TOPICS

\* C16 (merged Context re-validated): a Context that update_context returns
\* passes validate; when both inputs are valid and their topics together are
\* more than MAX_TOPICS, the call raises the RuntimeError of update_context
\* with the validation failure as its cause.
C16_MergedRevalidated ==
    \A k \in DOMAIN history :
        /\ Returned(k) =>
              ContextValidate(history[k].merged, history[k].pobj, history[k].robj) = "ok"
        /\ (ValidInputs(k) /\ TopicsOverflow(k)) =>
              /\ history[k].outcome = "raised"
              /\ history[k].error = [type |-> "RuntimeError", message |-> ErrUpdate,
                                     cause |-> "Maximum of 10 topics allowed"]

C16_Witness ==
    \E k \in DOMAIN history :
        /\ ValidInputs(k)
        /\ Len(history[k].existing.topics) = 2
        /\ Len(history[k].new.topics) = MAX_TOPICS - 1
        /\ TopicsOverflow(k)
        /\ history[k].outcome = "raised"

\* the addresses of the nested instances of a Context
NestedProjects(c) == Range(c.project_contexts)

NestedRelationships(c) == Range(c.relationship_contexts)

\* C17 (merge is pure): after a call of update_context the nested instances
\* of both arguments hold the values they held when the call was made, no
\* nested instance of the returned Context is an instance of an argument, and
\* the nested instances of every Context returned earlier hold the values
\* they held when it was returned.
C17_MergeIsPure ==
    \A k \in DOMAIN history :
        /\ \A a \in NestedProjects(history[k].existing) \cup NestedProjects(history[k].new) :
              history[k].pobj[a] = history[k].pobj0[a]
        /\ \A a \in NestedRelationships(history[k].existing) \cup
                    NestedRelationships(history[k].new) :
              history[k].robj[a] = history[k].robj0[a]
        /\ Returned(k) =>
              /\ NestedProjects(history[k].merged) \cap
                    (NestedProjects(history[k].existing) \cup
                     NestedProjects(history[k].new)) = {}
              /\ NestedRelationships(history[k].merged) \cap
                    (NestedRelationships(history[k].existing) \cup
                     NestedRelationships(history[k].new)) = {}
              /\ \A a \in NestedProjects(history[k].merged) : pobj[a] = history[k].pobj[a]
              /\ \A a \in NestedRelationships(history[k].merged) :
                    robj[a] = history[k].robj[a]

----------------------------------------------------------------------------
\* Properties of the validators

\* the rules of the Context validator a Context violates: (1) identifiers,
\* (2) topics, (3) metadata, (4) nested instances, (5) timestamp
ViolatedRules(c, P, R) ==
    {n \in 1..5 :
        \/ n = 1 /\ (~IsUUID(c.context_id) \/ ~IsUUID(c.email_id))
        \/ n = 2 /\ Len(c.topics) > MAX_TOPICS
        \/ n = 3 /\ \E k \in DOMAIN REQUIRED_METADATA_FIELDS :
                        REQUIRED_METADATA_FIELDS[k] \notin DOMAIN c.metadata
        \/ n = 4 /\ \/ \E a \in Range(c.project_contexts) : ProjectValidate(P[a]) # "ok"
                    \/ \E a \in Range(c.relationship_contexts) :
                           RelationshipValidate(R[a]) # "ok"
        \/ n = 5 /\ c.analyzed_at > Now}

\* the rule an error message of Context.validate belongs to (the nested
\* instances of the Contexts validated have no malformed non-empty project_id,
\* so that the message of uuid.UUID names rule 1)
RuleOfMessage(msg) ==
    IF msg = ErrUUID THEN 1
    ELSE IF msg = "Maximum of 10 topics allowed" THEN 2
    ELSE IF \E k \in DOMAIN REQUIRED_METADATA_FIELDS :
                msg = ErrMetadata[REQUIRED_METADATA_FIELDS[k]] THEN 3
    ELSE IF msg = "Analysis timestamp cannot be in the future" THEN 5
    ELSE 4

\* C18 (validation order): a validate call on a Context accepts it exactly
\* when it violates none of the five rules, and otherwise raises the error of
\* the lowest-numbered rule the Context violates.
C18_FirstViolatedRuleReported ==
    verdict.on = "context" =>
        LET violated == ViolatedRules(subject, pobj, robj)
        IN  IF violated = {} THEN verdict.outcome = "ok"
            ELSE /\ verdict.outcome # "ok"
                 /\ RuleOfMessage(verdict.outcome) \in violated
                 /\ \A n \in violated : RuleOfMessage(verdict.outcome) <= n

C18_Witness ==
    /\ verdict.on = "context"
    /\ ViolatedRules(subject, pobj, robj) = {2, 4, 5}
    /\ verdict.outcome = "Maximum of 10 topics allowed"

\* C19 (out-of-range values rejected): a validate call on a ProjectContext
\* whose relevance_score lies outside [0, 1], or on a Context holding such a
\* ProjectContext, raises an error; the value is never accepted.
C19_OutOfRangeRejected ==
    /\ (verdict.on = "project" /\ ~ConfidenceInRange(pobj[verdict.at].relevance_score))
           => verdict.outcome # "ok"
    /\ (verdict.on = "context" /\
        \E a \in Range(subject.project_contexts) :
            ~ConfidenceInRange(pobj[a].relevance_score))
           => verdict.outcome # "ok"

----------------------------------------------------------------------------
\* Properties of the template manager

\* the last call was create_template
Created == template_call.op = "create_template"

\* content create_template is meant to accept: within the size limit, at
\* least the minimum length, holding a placeholder, in the tone asked for
AcceptableContent(content, tone) ==
    /\ content.size <= MAX_TEMPLATE_SIZE
    /\ content.size >= MIN_TEMPLATE_LENGTH
    /\ FindPlaceholders(content) # {}
    /\ 10 * Cardinality(TemplateToneWords(tone) \cap content.words)
           >= 3 * Cardinality(TemplateToneWords(tone))

\* C22: for content that meets the length minimum, holds at least one
\* {placeholder} token and scores at or above the quality minimum,
\* create_template returns a template of version 1 whose placeholders are the
\* tokens of the content, stored under its template_id, with an analytics
\* record of usage_count 0 and success_rate 0.0.
C22_CreateSucceeds ==
    (/\ Created
     /\ AcceptableContent(template_call.content, template_call.tone)
     /\ template_call.score >= TEMPLATE_MIN_CONFIDENCE_SCORE)
        => /\ template_call.outcome = "returned"
           /\ template_call.template.version = 1
           /\ Range(template_call.template.placeholders)
                  = FindPlaceholders(template_call.content)
           /\ template_call.template.template_id \in DOMAIN redis_templates
           /\ redis_templates[template_call.template.template_id]
                  = template_call.template
           /\ redis_analytics[template_call.template.template_id].usage_count = 0
           /\ redis_analytics[template_call.template.template_id].success_rate
                  = <<0, 1>>

\* the last call built a ResponseTemplate with declared placeholders and
\* validated it
Validated == template_call.op = "validate_template"

C24_LowQualityRejected ==
    /\ (/\ Created
        /\ AcceptableContent(template_call.content, template_call.tone)
        /\ template_call.score < TEMPLATE_MIN_CONFIDENCE_SCORE)
           => /\ template_call.outcome = "raised"
              /\ template_call.error = ValueError(ErrTemplateConfidence)
    /\ (Created /\ template_call.outcome = "raised") => StoreEmpty

\* the step is a version call on id that returned a template
VersionReturned(id) ==
    /\ template_call' # template_call
    /\ template_call'.op = "version_template"
    /\ template_call'.template_id = id
    /\ template_call'.outcome = "returned"

----------------------------------------------------------------------------
\* Properties of track_template_usage

\* the calls made so far on a template
CallsOn(id) == {t \in UsageTasks : usage_local[t].template_id = id}

\* the calls on a template that reported a success
SuccessesOn(id) ==
    {t \in CallsOn(id) : HasSuccess(usage_local[t].usage_data)
                            /\ usage_local[t].usage_data.success}

\* every call on the template carried the success flag
AllFlagged(id) == \A t \in CallsOn(id) : HasSuccess(usage_local[t].usage_data)

\* C26: N concurrent track_template_usage calls with success=True on one
\* template leave usage_count = N and success_rate = 1.0, however their store
\* operations interleave.
C26_ConcurrentUsageExact ==
    \A id \in UsedTemplateIds :
        (/\ CallsOn(id) # {}
         /\ NoCallRunning
         /\ SuccessesOn(id) = CallsOn(id))
            => /\ Hget(redis_analytics, id, "usage_count")
                      = <<Cardinality(CallsOn(id))>>
               /\ Hget(redis_analytics, id, "success_rate") = <<(<<1, 1>>)>>

\* C27: after calls made one after the other on a new template, usage_count
\* is the number of calls and, when every call carried a success flag,
\* success_rate is the number of successful calls over usage_count.
C27_RunningMean ==
    \A id \in UsedTemplateIds :
        (CallsOn(id) # {} /\ NoCallRunning)
            => /\ Hget(redis_analytics, id, "usage_count")
                      = <<Cardinality(CallsOn(id))>>
               /\ AllFlagged(id)
                      => Hget(redis_analytics, id, "success_rate")
                             = <<Fraction(Cardinality(SuccessesOn(id)),
                                          Cardinality(CallsOn(id)))>>

\* two successes and then a failure have been tracked: the rate is 2/3
C27_Witness ==
    /\ Len(usage_pc) = 3
    /\ NoCallRunning
    /\ usage_local[1].usage_data = [success |-> TRUE]
    /\ usage_local[2].usage_data = [success |-> TRUE]
    /\ usage_local[3].usage_data = [success |-> FALSE]
    /\ Hget(redis_analytics, 1, "usage_count") = <<3>>
    /\ Hget(redis_analytics, 1, "success_rate") = <<(<<2, 3>>)>>

\* C28: the stored usage_count of a template never decreases, also while
\* calls of track_template_usage are suspended between their store operations.
C28_UsageCountMonotone ==
    [][\A id \in DOMAIN redis_analytics :
        "usage_count" \in DOMAIN redis_analytics[id]
            => /\ id \in DOMAIN redis_analytics'
               /\ "usage_count" \in DOMAIN redis_analytics'[id]
               /\ redis_analytics'[id].usage_count >= redis_analytics[id].usage_count
      ]_vars

----------------------------------------------------------------------------
\* Properties of validate_response

\* validate_response has been called on a Response object
ResponseValidated == validation.on = "response" /\ response # None

\* a check of the response failed: structure, tone consistency, prohibited
\* content, or the confidence of the scorer
SomeCheckFailed ==
    \/ response.validation_results.structure_check = "failed"
    \/ response.validation_results.tone_consistency = "failed"
    \/ response.validation_results.prohibited_content = "failed"
    \/ (validation.score # << >>
           /\ validation.score[1] < GENERATOR_MIN_CONFIDENCE_THRESHOLD)

\* C29: validate_response combines its checks with AND: the verdict is false
\* whenever the content holds a prohibited term, fails the structure check,
\* fails tone consistency or scores below the minimum confidence, and true
\* only if all of them pass.
C29_VerdictIsConjunction ==
    (ResponseValidated /\ validation.outcome = "returned" /\ validation.score # << >>)
        => (validation.passed <=> ~SomeCheckFailed)

\* C30: validate_response never raises for a failed check: a failing check
\* gives a returned value (passed = false, a reason, the metrics); it raises
\* only when it is given no Response content.
C30_FailedCheckIsAValue ==
    /\ (validation.on = "response" /\ validation.outcome = "raised")
           => response = None
    /\ (ResponseValidated /\ validation.score # << >> /\ SomeCheckFailed)
           => /\ validation.outcome = "returned"
              /\ ~validation.passed
              /\ validation.message # ""
              /\ "content_structure" \in DOMAIN validation.metrics

----------------------------------------------------------------------------
\* Properties of analyze_email: the terminal failure

\* analyze_email of task i ended by raising with its retry budget used up
Exhausted(i) == pc[i] = "raised" /\ retry_count[i] = MAX_RETRIES

\* some attempt of task i ended in the except branch
SomeAttemptRaised(i) == \E k \in DOMAIN outcomes[i] : outcomes[i][k] = "error"

\* the exception analyze_email raised carries e: as its __cause__, or at
\* least as the __context__ the interpreter attaches
Carries(i, e) == raised_from[i].cause = e \/ raised_from[i].context = e

\* C31 as claimed: when the retry budget is exhausted and at least one attempt
\* raised an error, the failure raised carries the last error caught; when
\* every attempt ended with a low confidence the failure is the one of the
\* confidence threshold; and the kind of failure is the one of the final
\* attempt.
C31_FailureCarriesLastError ==
    \A i \in Tasks :
        Exhausted(i) =>
            /\ SomeAttemptRaised(i) => Carries(i, raised_from[i].caught)
            /\ AllLow(i) => error[i] = ErrConfidence
            /\ outcomes[i][Len(outcomes[i])] = "error" => error[i] = ErrAfterAttempts
            /\ outcomes[i][Len(outcomes[i])] = "low" => error[i] = ErrConfidence

----------------------------------------------------------------------------
\* Properties of the field combinators of update_context

\* the merge of that name has been made
Made(name) == name \in DOMAIN combined

\* two merges agree on the fields combined with max and with set union
SameMaxAndUnionFields(x, y) ==
    /\ x.relevance_score = y.relevance_score
    /\ x.confidence_score = y.confidence_score
    /\ Range(x.key_terms) = Range(y.key_terms)
    /\ Range(x.topics) = Range(y.topics)

\* C32 as claimed: max, set union and mean-of-two are each commutative and
\* associative, so the merged relevance_score, confidence_score, key_terms,
\* topics and interaction_frequency of three Contexts depend neither on the
\* order nor on the grouping of the merges.
C32_OrderAndGroupingIndependent ==
    /\ Made("ab") /\ Made("ba") =>
           /\ SameMaxAndUnionFields(combined["ab"], combined["ba"])
           /\ combined["ab"].interaction_frequency = combined["ba"].interaction_frequency
    /\ Made("ab_c") /\ Made("a_bc") =>
           /\ SameMaxAndUnionFields(combined["ab_c"], combined["a_bc"])
           /\ combined["ab_c"].interaction_frequency
                  = combined["a_bc"].interaction_frequency

\* C32 (amended): every combinator is commutative, so merging two Contexts in
\* either order gives the same fields; max and set union are associative as
\* well, so relevance_score, confidence_score, key_terms and topics do not
\* depend on the grouping; the mean-of-two of interaction_frequency is not
\* associative: merging (a, b) and then c gives ((a + b) / 2 + c) / 2, merging
\* a with (b, c) gives (a + (b + c) / 2) / 2, which differ unless a = c.
C32_CommutativeAndMaxUnionAssociative ==
    /\ Made("ab") /\ Made("ba") =>
           /\ SameMaxAndUnionFields(combined["ab"], combined["ba"])
           /\ combined["ab"].interaction_frequency = combined["ba"].interaction_frequency
    /\ Made("ab_c") /\ Made("a_bc") =>
           /\ SameMaxAndUnionFields(combined["ab_c"], combined["a_bc"])
           /\ (combined["ab_c"].interaction_frequency
                   = combined["a_bc"].interaction_frequency)
                  <=> (operands[1].interaction_frequency
                           = operands[3].interaction_frequency)

\* three Contexts with different values in every field merged in both orders
\* and in both groupings, the two groupings giving different frequencies
C32_Witness ==
    /\ Made("ab") /\ Made("ba") /\ Made("ab_c") /\ Made("a_bc")
    /\ operands[1] # operands[2] /\ operands[2] # operands[3]
    /\ operands[1] # operands[3]
    /\ combined["ab"].confidence_score # operands[1].confidence_score
    /\ combined["ab_c"].interaction_frequency # combined["a_bc"].interaction_frequency

----------------------------------------------------------------------------
\* Properties of the route handlers

\* C33 as claimed: a status a handler chose itself reaches the client:
\* get_context answers 404 when the context does not exist, and
\* analyze_email_context answers 422 when the confidence of the analysed
\* Context is below the route's threshold; neither is answered with 500.
C33_ChosenStatusReachesClient ==
    \A k \in DOMAIN http_log :
        LET r == http_log[k]
        IN  /\ (r.route = "get_context" /\ r.given.kind = "missing"
                    /\ r.raised.class = "HTTPException")
                   => r.reply.status = 404
            /\ (r.route = "analyze_email_context" /\ r.given.kind = "context"
                    /\ r.given.confidence_score < ROUTES_CONFIDENCE_THRESHOLD)
                   => r.reply.status = 422

----------------------------------------------------------------------------
\* Properties of the keys of merged Contexts

\* C34 (unique keys): in every Context that update_context returned, after
\* any sequence of calls, no two project_contexts have the same project_id
\* and no two relationship_contexts the same person_id, also when a list of
\* an input held an id twice.
C34_MergedKeysUnique ==
    \A k \in DOMAIN history :
        Returned(k) =>
            UniqueKeys(history[k].merged, history[k].pobj, history[k].robj)

\* a call that returned although its existing Context held a project_id and
\* a person_id twice, followed by a call on the Context it returned
C34_Witness ==
    \E j, k \in DOMAIN history :
        /\ j < k
        /\ Returned(j)
        /\ Returned(k)
        /\ ~UniqueKeys(history[j].existing, history[j].pobj0, history[j].robj0)
        /\ Len(history[j].existing.project_contexts) = 2
        /\ Len(history[j].merged.project_contexts) = 1
        /\ Len(history[j].merged.relationship_contexts) = 1
        /\ history[k].existing = history[j].merged

----------------------------------------------------------------------------
\* Properties of analyze_email with the NLPProcessor as its extractor

\* the attempts of all tasks: task and position in its log
AttemptsMade == {<<i, k>> \in Tasks \X (1..MAX_RETRIES) : k \in DOMAIN processed[i]}

\* the attempt's semantic analysis scored below the processor's threshold:
\* what the dictionary reports is the boosted score
Boosted(a) == a.raw # << >> /\ a.raw[1] < NLP_CONFIDENCE_THRESHOLD

AllCacheHits(j) ==
    /\ processed[j] # << >>
    /\ \A k \in DOMAIN processed[j] : processed[j][k].cache_hit

\* C36 as claimed: the cache does not change outcomes.  When analyze_email
\* returned a Context for some content, a request on the same content that is
\* answered from the still fresh cache returns a Context too, with the same
\* confidence_score, topics and nested contexts; and the dictionary of a cache
\* hit carries the confidence_score and the semantic analysis of the uncached
\* call.
C36_CachingPreservesOutcomes ==
    /\ \A i, j \in Tasks :
          (/\ pc[i] = "returned"
           /\ email_batch[j].content = email_batch[i].content
           /\ AllCacheHits(j)
           /\ Ended(j))
              => /\ pc[j] = "returned"
                 /\ result[j].confidence_score = result[i].confidence_score
                 /\ result[j].topics = result[i].topics
                 /\ Len(result[j].project_contexts) = Len(result[i].project_contexts)
                 /\ Len(result[j].relationship_contexts)
                        = Len(result[i].relationship_contexts)
    /\ \A t \in AttemptsMade :
          LET a == processed[t[1]][t[2]]
          IN  a.cache_hit =>
                  /\ a.reported = <<SemanticConfidence(a.content)>>
                  /\ a.has_analysis

----------------------------------------------------------------------------
\* Properties of the TextAnalyzer cache

\* the TextAnalyzer call made by the step
LastCacheCall == cache_calls'[Len(cache_calls')]

\* C37 (the cache is bounded): the cache never holds more than
\* CACHE_MAX_SIZE entries, and no key twice; a call answered from the cache
\* leaves it as it is; a call that inserts into a full cache removes exactly
\* the entry inserted first and puts the new one last; any other insertion
\* removes nothing.
C37_CacheBounded ==
    [][/\ Len(text_cache) <= CACHE_MAX_SIZE
       /\ Len(text_cache') <= CACHE_MAX_SIZE
       /\ Cardinality(Range(text_cache')) = Len(text_cache')
       /\ LastCacheCall.hit => text_cache' = text_cache
       /\ (~LastCacheCall.hit /\ Len(text_cache) < CACHE_MAX_SIZE)
              => text_cache' = Append(text_cache, LastCacheCall.key)
       /\ (~LastCacheCall.hit /\ Len(text_cache) = CACHE_MAX_SIZE)
              => text_cache' = Append(Tail(text_cache), LastCacheCall.key)]_vars

\* a full cache after two evictions: the two oldest keys are gone, the third
\* is now first, the entities of a text not seen before went in last, and no
\* call was answered from the cache
C37_Witness ==
    /\ Len(text_cache) = CACHE_MAX_SIZE
    /\ text_cache[1] = CacheKey("semantic", 3)
    /\ text_cache[CACHE_MAX_SIZE] = CacheKey("entities", CACHE_MAX_SIZE + 1)
    /\ Len(cache_calls) >= 2
    /\ \A k \in DOMAIN cache_calls : ~cache_calls[k].hit

----------------------------------------------------------------------------
\* Properties of track_template_usage on a store whose commands can fail

\* the usage_count and success_rate of an analytics hash (none: field absent)
AnalyticsRecord(hash) ==
    [usage_count |-> IF "usage_count" \in DOMAIN hash THEN <<hash.usage_count>> ELSE << >>,
     success_rate |-> IF "success_rate" \in DOMAIN hash THEN <<hash.success_rate>> ELSE << >>]

\* C38 as claimed: track_template_usage is all-or-nothing.  When a call
\* returns False, whichever store command failed, the template's usage_count
\* and success_rate are what they were when the call was made.
C38_UsageAllOrNothing ==
    [][\A t \in DOMAIN usage_pc' :
          (usage_pc'[t] = "failed" /\ (t \notin DOMAIN usage_pc \/ usage_pc[t] # "failed"))
              => AnalyticsRecord(HashOf(redis_analytics', usage_local'[t].template_id))
                     = AnalyticsRecord(usage_local'[t].before)]_vars

----------------------------------------------------------------------------
\* Properties of Response.validate_content and Response.update_learning_metrics

\* C39 as claimed: after every validate_content or update_learning_metrics
\* call the confidence_score of the Response is between 0 and 1, and an
\* update_learning_metrics call given a value that is not a number returns
\* False and leaves learning_metrics and confidence_score as they were.
C39_ConfidenceStaysInUnitInterval ==
    [][/\ response'.confidence_score >= 0
       /\ response'.confidence_score <= 100
       /\ (/\ metrics_call'.n # metrics_call.n
           /\ ~MetricsFormatValid(metrics_call'.new_metrics))
              => /\ ~metrics_call'.returned
                 /\ response'.learning_metrics = response.learning_metrics
                 /\ response'.confidence_score = response.confidence_score]_vars

----------------------------------------------------------------------------
\* Termination of analyze_email

\* C40 (termination): when every extractor call and every delay returns,
\* every analyze_email request ends, with a returned Context or a raised
\* error, after at most MAX_RETRIES iterations of its loop, whatever the
\* outcomes of the iterations are; and every iteration after which the loop
\* goes on has added one to retry_count.
C40_AnalyzeEmailTerminates ==
    /\ <>[](\A i \in Tasks : Ended(i))
    /\ [](\A i \in Tasks : calls[i] <= MAX_RETRIES)
    /\ [][\A i \in Tasks :
             (calls'[i] # calls[i] /\ ~Ended(i)')
                 => retry_count'[i] = retry_count[i] + 1]_vars

\* a request has ended after MAX_RETRIES iterations, some of low confidence
\* and some that raised
C40_Witness ==
    \E i \in Tasks :
        /\ Ended(i)
        /\ calls[i] = MAX_RETRIES
        /\ \E k \in DOMAIN outcomes[i] : outcomes[i][k] = "low"
        /\ \E k \in DOMAIN outcomes[i] : outcomes[i][k] = "error"

====
